---- MODULE Spec2Model ----
(***************************************************************************)
(* Resource tracking pass of the shader recompiler                         *)
(* (shader_recompiler/runtime_info.h and ir/passes/resource_tracking_pass) *)
(*                                                                         *)
(* The module models the descriptor registry (class Descriptors), the      *)
(* sharp resolver, the buffer and image instruction patchers and the pass  *)
(* driver over an arena of IR instructions.                                *)
(***************************************************************************)
EXTENDS Integers, Sequences, FiniteSets, TLC

VARIABLES
    insts,      \* the program's instructions: the arena of IR::Inst objects behind
                \* the operand graph, which no patcher writes to
    blocks,     \* program.post_order_blocks: each block a sequence of arena indices
    info,       \* program.info: resource lists, user data, memory behind it, pgm_base
    cursor,     \* position of the two range-for loops of ResourceTrackingPass
    status,     \* "running", "done", or the failure that ended the pass
    calls,      \* history: the Descriptors::Add calls made so far and what they returned
    input,      \* history: the program as it was handed to the pass
    visited     \* history: the instructions dispatched so far, each with the
                \* patcher it went to ("buffer", "image", "none")

vars == <<insts, blocks, info, cursor, status, calls, input, visited>>

-----------------------------------------------------------------------------
(* Program constants *)

\* boost::container::static_vector<..., 16>
MaxResources == 16

\* IR::ScalarReg::Max, the sentinel base of a sharp held directly in user data
ScalarRegMax == 104

\* std::numeric_limits<u32>::max(), the sgpr_base of an inline constant buffer,
\* written as the two's complement reading of 0xFFFFFFFF
U32Max == -1

\* static constexpr size_t MaxUboSize
MaxUboSize == 65536

(* Bounds of the model *)

\* Descriptors::Add calls explored by the registry-level specification
MaxCalls == 3

-----------------------------------------------------------------------------
(* AmdGpu::Buffer, by its decoded fields; the all-zero value is what a       *)
(* value-initialised inline_cbuf holds.                                      *)

\* word3 is the last word of the V#, of which add_tid_enable is bit 23
Buffer(base, stride, num_records, swizzle, add_tid) ==
    [base_address |-> base, stride |-> stride, num_records |-> num_records,
     swizzle_enable |-> swizzle, add_tid_enable |-> add_tid,
     word3 |-> IF add_tid THEN 2 ^ 23 ELSE 0]

ZeroBuffer == Buffer(0, 0, 0, FALSE, FALSE)

BufferResource(sgpr_base, dword_offset, stride, num_records, used_types, inline_cbuf, is_storage) ==
    [sgpr_base |-> sgpr_base, dword_offset |-> dword_offset, stride |-> stride,
     num_records |-> num_records, used_types |-> used_types,
     inline_cbuf |-> inline_cbuf, is_storage |-> is_storage]

ImageResource(sgpr_base, dword_offset, type, nfmt, is_storage, is_depth) ==
    [sgpr_base |-> sgpr_base, dword_offset |-> dword_offset, type |-> type,
     nfmt |-> nfmt, is_storage |-> is_storage, is_depth |-> is_depth]

\* associated_image is a 4-bit field, disable_aniso a 1-bit field
SamplerResource(sgpr_base, dword_offset, associated_image, disable_aniso) ==
    [sgpr_base |-> sgpr_base, dword_offset |-> dword_offset,
     associated_image |-> associated_image % 16, disable_aniso |-> disable_aniso]

-----------------------------------------------------------------------------
(* class Descriptors *)

\* std::ranges::find_if: position (1-based) of the first entry satisfying pred,
\* 0 for end(); pred[i] is the predicate's value on descriptors[i]
FindIf(descriptors, pred) ==
    IF \E i \in 1..Len(descriptors) : pred[i]
    THEN CHOOSE i \in 1..Len(descriptors) :
            /\ pred[i]
            /\ \A j \in 1..(i - 1) : ~pred[j]
    ELSE 0

\* faulty variant of IsFull: the capacity test off by one
IsFullAbove(descriptors) == Len(descriptors) > MaxResources

\* static_vector: size() == capacity(), where push_back throws
IsFull(descriptors) == Len(descriptors) >= MaxResources

\* faulty variant of PushBack: the new entry goes to the front
PushFront(descriptors, desc) == <<desc>> \o descriptors

\* descriptors.push_back(desc)
PushBack(descriptors, desc) == Append(descriptors, desc)

\* Descriptors::Add (template): the index of the first matching entry, else
\* push_back and size() - 1
Add(descriptors, desc, pred) ==
    LET it == FindIf(descriptors, pred) IN
    IF it # 0
    THEN [list |-> descriptors, index |-> it - 1, fail |-> "none"]
    ELSE IF IsFull(descriptors)
    THEN [list |-> descriptors, index |-> -1, fail |-> "capacity"]
    ELSE LET pushed == PushBack(descriptors, desc) IN
         [list |-> pushed, index |-> Len(pushed) - 1, fail |-> "none"]

\* faulty variant of BufferPred: the inline constant buffer is not compared
BufferPredNoInline(desc, existing) ==
    /\ desc.sgpr_base = existing.sgpr_base
    /\ desc.dword_offset = existing.dword_offset

\* faulty variant of BufferPred: the base register is not compared
BufferPredOffsetOnly(desc, existing) ==
    /\ desc.dword_offset = existing.dword_offset
    /\ desc.inline_cbuf = existing.inline_cbuf

\* the lambda of Add(const BufferResource&)
BufferPred(desc, existing) ==
    /\ desc.sgpr_base = existing.sgpr_base
    /\ desc.dword_offset = existing.dword_offset
    /\ desc.inline_cbuf = existing.inline_cbuf

\* faulty variant of WidenBuffer: the flags are assigned, not OR-ed
OverwriteBuffer(buffer, desc) ==
    [buffer EXCEPT !.is_storage = desc.is_storage,
                   !.used_types = desc.used_types]

\* faulty variant of WidenBuffer: the element types are not accumulated
WidenStorageOnly(buffer, desc) ==
    [buffer EXCEPT !.is_storage = @ \/ desc.is_storage]

\* the flag widening of Add(const BufferResource&)
WidenBuffer(buffer, desc) ==
    [buffer EXCEPT !.is_storage = @ \/ desc.is_storage,
                   !.used_types = @ \cup desc.used_types]

\* faulty variant of SameLayout: num_records is not compared
SameStride(buffer, desc) == buffer.stride = desc.stride

\* the condition of the ASSERT of Add(const BufferResource&)
SameLayout(buffer, desc) ==
    buffer.stride = desc.stride /\ buffer.num_records = desc.num_records

\* Descriptors::Add(const BufferResource&)
AddBuffer(buffer_resources, desc) ==
    LET r == Add(buffer_resources, desc,
        [i \in 1..Len(buffer_resources) |-> BufferPred(desc, buffer_resources[i])]) IN
    IF r.fail # "none" THEN r
    ELSE LET buffer == r.list[r.index + 1] IN
         IF ~SameLayout(buffer, desc)
         THEN [list |-> r.list, index |-> -1, fail |-> "assert"]
         ELSE [r EXCEPT !.list[r.index + 1] = WidenBuffer(buffer, desc)]

\* faulty variant of ImagePred: is_storage is not compared
ImagePredNoStorage(desc, existing) ==
    /\ desc.sgpr_base = existing.sgpr_base
    /\ desc.dword_offset = existing.dword_offset
    /\ desc.type = existing.type

\* the lambda of Add(const ImageResource&)
ImagePred(desc, existing) ==
    /\ desc.sgpr_base = existing.sgpr_base
    /\ desc.dword_offset = existing.dword_offset
    /\ desc.type = existing.type
    /\ desc.is_storage = existing.is_storage

\* Descriptors::Add(const ImageResource&)
AddImage(image_resources, desc) ==
    Add(image_resources, desc,
        [i \in 1..Len(image_resources) |-> ImagePred(desc, image_resources[i])])

\* faulty variant of SamplerPred: the associated image is compared as well
SamplerPredWithImage(desc, existing) ==
    /\ desc.sgpr_base = existing.sgpr_base
    /\ desc.dword_offset = existing.dword_offset
    /\ desc.associated_image = existing.associated_image

\* the lambda of Add(const SamplerResource&)
SamplerPred(desc, existing) ==
    /\ desc.sgpr_base = existing.sgpr_base
    /\ desc.dword_offset = existing.dword_offset

\* faulty variant of AddSampler: a matching entry takes the fields of desc
AddSamplerKeepLast(sampler_resources, desc) ==
    LET r == Add(sampler_resources, desc,
        [i \in 1..Len(sampler_resources) |-> SamplerPred(desc, sampler_resources[i])]) IN
    IF r.fail # "none" THEN r ELSE [r EXCEPT !.list[r.index + 1] = desc]

\* Descriptors::Add(const SamplerResource&)
AddSampler(sampler_resources, desc) ==
    Add(sampler_resources, desc,
        [i \in 1..Len(sampler_resources) |-> SamplerPred(desc, sampler_resources[i])])

-----------------------------------------------------------------------------
(* State after construction of Info and Descriptors: empty resource lists *)

EmptyInfo ==
    [buffers |-> <<>>, images |-> <<>>, samplers |-> <<>>,
     user_data |-> <<>>, memory |-> <<>>, pgm_base |-> 0, pgm_base_hi |-> 0]

\* a Descriptors::Add call, made for instruction inst (0: by a client outside
\* the pass), as entered in the history
Call(kind, desc, r, inst) ==
    [kind |-> kind, desc |-> desc, index |-> r.index, fail |-> r.fail, inst |-> inst]

\* one call of Descriptors::Add(const BufferResource&) and what it leaves behind
DoAddBuffer(desc) ==
    LET r == AddBuffer(info.buffers, desc) IN
    /\ info' = [info EXCEPT !.buffers = r.list]
    /\ status' = IF r.fail = "none" THEN status ELSE r.fail
    /\ calls' = calls \cup {Call("buffer", desc, r, 0)}
    /\ UNCHANGED <<insts, blocks, cursor, input, visited>>

DoAddImage(desc) ==
    LET r == AddImage(info.images, desc) IN
    /\ info' = [info EXCEPT !.images = r.list]
    /\ status' = IF r.fail = "none" THEN status ELSE r.fail
    /\ calls' = calls \cup {Call("image", desc, r, 0)}
    /\ UNCHANGED <<insts, blocks, cursor, input, visited>>

DoAddSampler(desc) ==
    LET r == AddSampler(info.samplers, desc) IN
    /\ info' = [info EXCEPT !.samplers = r.list]
    /\ status' = IF r.fail = "none" THEN status ELSE r.fail
    /\ calls' = calls \cup {Call("sampler", desc, r, 0)}
    /\ UNCHANGED <<insts, blocks, cursor, input, visited>>

InitRegistry ==
    /\ insts = <<>>
    /\ blocks = <<>>
    /\ info = EmptyInfo
    /\ cursor = [block |-> 1, pos |-> 1]
    /\ status = "running"
    /\ calls = {}
    /\ input = <<>>
    /\ visited = <<>>

-----------------------------------------------------------------------------
(* SpecAdd: a client calling Descriptors::Add(const BufferResource&) with    *)
(* arbitrary candidates.                                                     *)

SomeCbuf == Buffer(4384, 0, 16, FALSE, FALSE)

\* identities: a base one, one differing from it in each single field, and one
\* differing in all three
BufferIdentities ==
    { <<ScalarRegMax, 0, ZeroBuffer>>, <<8, 0, ZeroBuffer>>,
      <<ScalarRegMax, 4, ZeroBuffer>>, <<ScalarRegMax, 0, SomeCbuf>>,
      <<8, 4, SomeCbuf>> }

BufferCandidates ==
    { BufferResource(id[1], id[2], sn[1], sn[2], {"F32"}, id[3], st) :
        id \in BufferIdentities,
        sn \in { <<4, 16>>, <<16, 16>>, <<4, 256>> },
        st \in BOOLEAN }

RegisterBuffer ==
    /\ status = "running"
    /\ Cardinality(calls) < MaxCalls
    /\ \E desc \in BufferCandidates : DoAddBuffer(desc)

NextAdd == RegisterBuffer

SpecAdd == InitRegistry /\ [][NextAdd]_vars

-----------------------------------------------------------------------------
(* SpecSampler: a client calling Descriptors::Add(const SamplerResource&)    *)
(* with arbitrary candidates.                                                *)

SamplerCandidates ==
    { SamplerResource(base, d, image, aniso) :
        base \in {ScalarRegMax, 8}, d \in {12, 16},
        image \in {0, 1}, aniso \in BOOLEAN }

RegisterSampler ==
    /\ status = "running"
    /\ Cardinality(calls) < MaxCalls
    /\ \E desc \in SamplerCandidates : DoAddSampler(desc)

NextSampler == RegisterSampler

SpecSampler == InitRegistry /\ [][NextSampler]_vars

-----------------------------------------------------------------------------
(* SpecCap: a client registering one new descriptor after the other, of each *)
(* kind, until a list is full and beyond.  The registry compares identities  *)
(* for equality only, so the k-th new descriptor is the one at dword k.      *)

FillBuffer ==
    /\ status = "running"
    /\ \E d \in {0, Len(info.buffers)} :
          DoAddBuffer(BufferResource(ScalarRegMax, d, 4, 16, {"F32"}, ZeroBuffer, FALSE))

FillImage ==
    /\ status = "running"
    /\ \E d \in {0, Len(info.images)} :
          DoAddImage(ImageResource(ScalarRegMax, d, "Color2D", "Float", FALSE, FALSE))

FillSampler ==
    /\ status = "running"
    /\ \E d \in {0, Len(info.samplers)} :
          DoAddSampler(SamplerResource(ScalarRegMax, d, 0, FALSE))

NextCap == FillBuffer \/ FillImage \/ FillSampler

SpecCap == InitRegistry /\ [][NextCap]_vars

-----------------------------------------------------------------------------
(* IR values and instructions.  An operand is an immediate or a reference    *)
(* to the instruction producing it; float immediates are kept in halves      *)
(* (ImmF(3) is 1.5f).                                                        *)

Imm(v) == [k |-> "imm", v |-> v]
ImmF(halves) == [k |-> "immf", v |-> halves]
Ref(i) == [k |-> "inst", v |-> i]

IsImmediate(val) == val.k # "inst"

\* Value::TryInstRecursive: the producing instruction, 0 (nullptr) for an immediate
TryInstRecursive(val) == IF val.k = "inst" THEN val.v ELSE 0

\* IR::BufferInstInfo and IR::TextureInstInfo, the packed flags of an instruction
NoFlags ==
    [index_enable |-> FALSE, offset_enable |-> FALSE, inst_offset |-> 0,
     is_typed |-> FALSE, nfmt |-> "Float", dmft |-> "Format32",
     is_depth |-> FALSE, has_offset |-> FALSE, has_lod_clamp |-> FALSE,
     explicit_lod |-> FALSE]

Inst(op, args, flags) == [op |-> op, args |-> args, flags |-> flags]

BufferFlags(index_enable, offset_enable, inst_offset) ==
    [NoFlags EXCEPT !.index_enable = index_enable, !.offset_enable = offset_enable,
                    !.inst_offset = inst_offset]

TextureFlags(is_depth, has_offset, has_lod_clamp, explicit_lod) ==
    [NoFlags EXCEPT !.is_depth = is_depth, !.has_offset = has_offset,
                    !.has_lod_clamp = has_lod_clamp, !.explicit_lod = explicit_lod]

-----------------------------------------------------------------------------
(* Opcode classification *)

BufferStoreOpcodes ==
    {"StoreBufferF32", "StoreBufferF32x2", "StoreBufferF32x3", "StoreBufferF32x4",
     "StoreBufferU32"}

BufferOpcodes ==
    {"LoadBufferF32", "LoadBufferF32x2", "LoadBufferF32x3", "LoadBufferF32x4",
     "LoadBufferU32", "ReadConstBuffer", "ReadConstBufferU32"} \cup BufferStoreOpcodes

ImageStorageOpcodes ==
    {"ImageWrite", "ImageRead", "ImageAtomicIAdd32", "ImageAtomicSMin32",
     "ImageAtomicUMin32", "ImageAtomicSMax32", "ImageAtomicUMax32", "ImageAtomicInc32",
     "ImageAtomicDec32", "ImageAtomicAnd32", "ImageAtomicOr32", "ImageAtomicXor32",
     "ImageAtomicExchange32"}

ImageOpcodes ==
    {"ImageSampleExplicitLod", "ImageSampleImplicitLod", "ImageSampleDrefExplicitLod",
     "ImageSampleDrefImplicitLod", "ImageFetch", "ImageGather", "ImageGatherDref",
     "ImageQueryDimensions", "ImageQueryLod", "ImageGradient"} \cup ImageStorageOpcodes

IsBufferInstruction(inst) == inst.op \in BufferOpcodes

IsBufferStore(inst) == inst.op \in BufferStoreOpcodes

IsImageInstruction(inst) == inst.op \in ImageOpcodes

IsImageStorageInstruction(inst) == inst.op \in ImageStorageOpcodes

\* BufferDataType: the IR::Type bit of the element type, as a one-element bitset
BufferDataType(inst) ==
    IF inst.op \in {"LoadBufferU32", "ReadConstBufferU32", "StoreBufferU32"}
    THEN {"U32"} ELSE {"F32"}

-----------------------------------------------------------------------------
(* Hardware descriptor decoders (video_core/amdgpu/resource.h) *)

\* Buffer::GetStride: the element stride in bytes
GetStride(buffer) == buffer.stride

\* Buffer::GetStrideElements(sizeof(u32)): the element stride in dwords
GetStrideElements(buffer, element_size) == buffer.stride \div element_size

\* Buffer::GetSize: the declared byte size
GetSize(buffer) == GetStride(buffer) * buffer.num_records

\* operator bool of AmdGpu::Buffer as used by GetVsharp
BufferIsSet(buffer) == buffer.base_address # 0

-----------------------------------------------------------------------------
(* User data *)

\* the address of the user-data table itself, as a <<low, high>> pair of words
UserDataAddr == <<0, 0>>

\* Info::ReadUd<T>: the sharp at dword_offset from the table, or from the
\* 64-bit pointer held in user_data[ptr_index], user_data[ptr_index + 1]
ReadUd(inf, ptr_index, dword_offset) ==
    LET base == IF ptr_index # ScalarRegMax
                THEN <<inf.user_data[ptr_index], inf.user_data[ptr_index + 1]>>
                ELSE UserDataAddr
    IN inf.memory[base][dword_offset]

\* faulty variant of GetVsharp: the inline descriptor whether set or not
GetVsharpInlineOnly(resource, inf) == resource.inline_cbuf

\* BufferResource::GetVsharp
GetVsharp(resource, inf) ==
    IF BufferIsSet(resource.inline_cbuf) THEN resource.inline_cbuf
    ELSE ReadUd(inf, resource.sgpr_base, resource.dword_offset).buffer

-----------------------------------------------------------------------------
(* Sharp resolver *)

SharpLocation(sgpr_base, dword_offset) ==
    [fail |-> "none", sgpr_base |-> sgpr_base, dword_offset |-> dword_offset]

SharpFailure(why) == [fail |-> why, sgpr_base |-> 0, dword_offset |-> 0]

\* the loop `while (inst->GetOpcode() == Phi) inst = inst->Arg(0).InstRecursive()`:
\* the first non-Phi instruction; 0 when an operand followed is no instruction
\* (the pointer the loop then reads through is null or invalid); -1 when the
\* chain leads back to a Phi already passed, where the loop never ends
RECURSIVE UnwrapPhi(_, _, _)
UnwrapPhi(a, inst, seen) ==
    IF inst = 0 THEN 0
    ELSE IF a[inst].op # "Phi" THEN inst
    ELSE IF inst \in seen THEN -1
    ELSE UnwrapPhi(a, TryInstRecursive(a[inst].args[1]), seen \cup {inst})

\* faulty variant of ConstLocation: the offset operand is taken for bytes
ConstLocationFromBytes(a, inst, sbase0) ==
    SharpLocation(a[sbase0].args[1].v, a[inst].args[2].v \div 4)

\* the location TrackSharp returns for the ReadConst inst whose first address
\* half is the GetUserData sbase0
ConstLocation(a, inst, sbase0) ==
    SharpLocation(a[sbase0].args[1].v, a[inst].args[2].v)

\* TrackSharp
TrackSharp(a, first) ==
    LET inst == UnwrapPhi(a, first, {}) IN
    IF inst = -1 THEN SharpFailure("hang")
    ELSE IF inst = 0 THEN SharpFailure("undefined")
    ELSE IF a[inst].op = "GetUserData"
    THEN SharpLocation(ScalarRegMax, a[inst].args[1].v)
    ELSE IF a[inst].op # "ReadConst" THEN SharpFailure("assert")
    ELSE
      LET spgpr_base == TryInstRecursive(a[inst].args[1])
      IN
      IF spgpr_base = 0 \/ Len(a[spgpr_base].args) < 2 THEN SharpFailure("undefined")
      ELSE
        LET sbase0 == UnwrapPhi(a, TryInstRecursive(a[spgpr_base].args[1]), {})
            sbase1 == UnwrapPhi(a, TryInstRecursive(a[spgpr_base].args[2]), {})
        IN
        IF sbase0 = -1 THEN SharpFailure("hang")
        ELSE IF sbase0 = 0 THEN SharpFailure("undefined")
        ELSE IF sbase1 = -1 THEN SharpFailure("hang")
        ELSE IF sbase1 = 0 THEN SharpFailure("undefined")
        ELSE IF ~(a[sbase0].op = "GetUserData" /\ a[sbase1].op = "GetUserData")
        THEN SharpFailure("assert")
        ELSE ConstLocation(a, inst, sbase0)

-----------------------------------------------------------------------------
(* The patchers work on a machine record m: the arena, the block being       *)
(* walked with the position of the instruction visited in it, Info, the      *)
(* history of registry calls and the failure met, if any.                    *)

InstOf(m) == m.block[m.pos]

Failed(m, why) == [m EXCEPT !.fail = why]

\* Inst::SetArg
SetArg(m, inst, index, val) == [m EXCEPT !.insts[inst].args[index + 1] = val]

InsertBefore(seq, pos, x) ==
    SubSeq(seq, 1, pos - 1) \o <<x>> \o SubSeq(seq, pos, Len(seq))

\* IREmitter::Inst: a new instruction, inserted before the one being patched
Emit(m, op, args) ==
    [m EXCEPT !.insts = Append(@, Inst(op, args, NoFlags)),
              !.block = InsertBefore(@, m.pos, Len(m.insts) + 1),
              !.pos = @ + 1]

\* the value of the instruction emitted last
Emitted(m) == Ref(Len(m.insts))

RegisterBufferResource(m, desc) ==
    LET r == AddBuffer(m.info.buffers, desc) IN
    [m EXCEPT !.info.buffers = r.list, !.fail = r.fail, !.binding = r.index,
              !.calls = @ \cup {Call("buffer", desc, r, InstOf(m))}]

RegisterImageResource(m, desc) ==
    LET r == AddImage(m.info.images, desc) IN
    [m EXCEPT !.info.images = r.list, !.fail = r.fail, !.binding = r.index,
              !.calls = @ \cup {Call("image", desc, r, InstOf(m))}]

RegisterSamplerResource(m, desc) ==
    LET r == AddSampler(m.info.samplers, desc) IN
    [m EXCEPT !.info.samplers = r.list, !.fail = r.fail, !.binding = r.index,
              !.calls = @ \cup {Call("sampler", desc, r, InstOf(m))}]

-----------------------------------------------------------------------------
(* Buffer instruction patcher *)

\* the shape test of TryHandleInlineCbuf: handle word 0 an IAdd32 of two
\* immediates, word 1 an IAdd32, words 2 and 3 immediates
IsInlineCbuf(a, inst) ==
    LET handle == TryInstRecursive(a[inst].args[1])
        p0 == TryInstRecursive(a[handle].args[1])
        p1 == TryInstRecursive(a[handle].args[2])
    IN /\ p0 # 0 /\ a[p0].op = "IAdd32"
       /\ IsImmediate(a[p0].args[1]) /\ IsImmediate(a[p0].args[2])
       /\ p1 # 0 /\ a[p1].op = "IAdd32"
       /\ IsImmediate(a[handle].args[4]) /\ IsImmediate(a[handle].args[3])

\* the stride field of a sharp, bits 16..29 of the high word of its first
\* 64-bit half
StrideField(high_word) == (high_word \div (2 ^ 16)) % (2 ^ 14)

\* the swizzle_enable bit of a sharp, the top bit of the same word (the word
\* is kept in its two's complement reading)
SwizzleField(high_word) == high_word < 0

\* faulty variant of IsStorageBuffer: a descriptor of exactly MaxUboSize bytes
\* counts as storage
IsStorageBufferAtCeiling(inst, buffer) ==
    IsBufferStore(inst) \/ GetSize(buffer) >= MaxUboSize

\* is_storage of a buffer registration: a store, or more bytes than a uniform
\* buffer holds
IsStorageBuffer(inst, buffer) ==
    IsBufferStore(inst) \/ GetSize(buffer) > MaxUboSize

\* faulty variant of InlineCbuf: the second immediate is left out of the address
InlineCbufOneImmediate(a, inst, pgm) ==
    LET handle == TryInstRecursive(a[inst].args[1])
        p0 == TryInstRecursive(a[handle].args[1])
        imm3 == a[handle].args[4].v
    IN [Buffer(pgm.pgm_base + a[p0].args[1].v, StrideField(pgm.pgm_base_hi),
               a[handle].args[3].v, SwizzleField(pgm.pgm_base_hi),
               (imm3 \div (2 ^ 23)) % 2 = 1)
           EXCEPT !.word3 = imm3]

\* the sharp TryHandleInlineCbuf builds: buffer[0] = pgm_base + imm0 + imm1 holds
\* the base address in its low word and the stride field in its high word,
\* which the sum of the two 32-bit immediates leaves as pgm_base has it;
\* buffer[1] = imm2 | imm3 << 32 holds num_records in its low word;
\* add_tid_enable is bit 23 of imm3
InlineCbuf(a, inst, pgm) ==
    LET handle == TryInstRecursive(a[inst].args[1])
        p0 == TryInstRecursive(a[handle].args[1])
        imm3 == a[handle].args[4].v
    IN [Buffer(pgm.pgm_base + a[p0].args[1].v + a[p0].args[2].v,
               StrideField(pgm.pgm_base_hi),
               a[handle].args[3].v, SwizzleField(pgm.pgm_base_hi),
               (imm3 \div (2 ^ 23)) % 2 = 1)
           EXCEPT !.word3 = imm3]

\* TryHandleInlineCbuf, taken when IsInlineCbuf
HandleInlineCbuf(m, cbuf) ==
    LET inst == m.insts[InstOf(m)] IN
    RegisterBufferResource(m,
        BufferResource(U32Max, 0, GetStride(cbuf), cbuf.num_records,
                       BufferDataType(inst), cbuf,
                       IsStorageBuffer(inst, cbuf)))

\* the sharp a buffer instruction reads: the inline one, or the one TrackSharp
\* locates in user data
BufferSharp(m) ==
    LET a == m.insts
        i == InstOf(m)
    IN IF IsInlineCbuf(a, i)
       THEN [fail |-> "none", buffer |-> InlineCbuf(a, i, m.info)]
       ELSE LET handle == TryInstRecursive(a[i].args[1])
                producer == TryInstRecursive(a[handle].args[1])
                sharp == TrackSharp(a, producer)
            IN IF sharp.fail # "none" THEN [fail |-> sharp.fail, buffer |-> ZeroBuffer]
               ELSE [fail |-> "none",
                     buffer |-> ReadUd(m.info, sharp.sgpr_base, sharp.dword_offset).buffer]

\* the first half of PatchBufferInstruction: find the sharp and register it
BindBuffer(m) ==
    LET a == m.insts
        i == InstOf(m)
        inst == a[i]
    IN IF IsInlineCbuf(a, i)
       THEN HandleInlineCbuf(m, InlineCbuf(a, i, m.info))
       ELSE LET handle == TryInstRecursive(inst.args[1])
                producer == TryInstRecursive(a[handle].args[1])
                sharp == TrackSharp(a, producer)
                buffer == ReadUd(m.info, sharp.sgpr_base, sharp.dword_offset).buffer
            IN IF sharp.fail # "none" THEN Failed(m, sharp.fail)
               ELSE RegisterBufferResource(m,
                      BufferResource(sharp.sgpr_base, sharp.dword_offset,
                                     GetStride(buffer), buffer.num_records,
                                     BufferDataType(inst), ZeroBuffer,
                                     IsStorageBuffer(inst, buffer)))

\* the address computation of PatchBufferInstruction, given dword_stride
EmitAddress(m, dword_stride) ==
    LET i == InstOf(m)
        inst_info == m.insts[i].flags
        arg1 == m.insts[i].args[2]
        dword_offset == inst_info.inst_offset \div 4
        address == Imm(dword_offset)
    IN IF inst_info.index_enable /\ inst_info.offset_enable
       THEN LET e1 == Emit(m, "CompositeExtractU32x2", <<arg1, Imm(1)>>)
                offset == Emitted(e1)
                e2 == Emit(e1, "CompositeExtractU32x2", <<arg1, Imm(0)>>)
                index == Emitted(e2)
                e3 == Emit(e2, "IMul32", <<index, Imm(dword_stride)>>)
                e4 == Emit(e3, "IAdd32", <<Emitted(e3), address>>)
                e5 == Emit(e4, "ShiftRightLogical32", <<offset, Imm(2)>>)
                e6 == Emit(e5, "IAdd32", <<Emitted(e4), Emitted(e5)>>)
            IN SetArg(e6, i, 1, Emitted(e6))
       ELSE IF inst_info.index_enable
       THEN LET e1 == Emit(m, "IMul32", <<arg1, Imm(dword_stride)>>)
                e2 == Emit(e1, "IAdd32", <<Emitted(e1), address>>)
            IN SetArg(e2, i, 1, Emitted(e2))
       ELSE SetArg(m, i, 1, address)

\* faulty variant of BufferAddress: the stride is taken in bytes
ByteStrideAddress(m, buffer) == EmitAddress(m, GetStride(buffer))

\* the tail of PatchBufferInstruction under "Calculate buffer address"
BufferAddress(m, buffer) == EmitAddress(m, GetStrideElements(buffer, 4))

\* the ASSERT on typed buffer instructions
TypedFormatOk(inst_info) ==
    inst_info.is_typed =>
        /\ inst_info.nfmt = "Float"
        /\ inst_info.dmft \in {"Format32_32_32_32", "Format32_32_32", "Format32_32",
                               "Format32"}

\* faulty variant of ReplaceHandle: the binding written is one-based
ReplaceHandleOneBased(m, binding) == SetArg(m, InstOf(m), 0, Imm(binding + 1))

\* inst.SetArg(0, ir.Imm32(binding))
ReplaceHandle(m, binding) == SetArg(m, InstOf(m), 0, Imm(binding))

\* faulty variant of UsesUnsupportedAddressing: add_tid_enable is let through
UsesSwizzleOnly(buffer) == buffer.swizzle_enable

\* what ASSERT(!buffer.swizzle_enable && !buffer.add_tid_enable) rejects
UsesUnsupportedAddressing(buffer) == buffer.swizzle_enable \/ buffer.add_tid_enable

\* faulty variant of IsWholeRead: ReadConstBufferU32 is not taken for one
IsWholeReadF32Only(inst) == inst.op = "ReadConstBuffer"

\* the opcodes PatchBufferInstruction returns on before the address computation
IsWholeRead(inst) == inst.op \in {"ReadConstBuffer", "ReadConstBufferU32"}

\* PatchBufferInstruction
PatchBufferInstruction(m) ==
    LET i == InstOf(m)
        sharp == BufferSharp(m)
        bound == BindBuffer(m)
    IN IF bound.fail # "none" THEN bound
       ELSE LET handled == ReplaceHandle(bound, bound.binding) IN
            IF UsesUnsupportedAddressing(sharp.buffer)
            THEN Failed(handled, "assert")
            ELSE IF ~TypedFormatOk(m.insts[i].flags) THEN Failed(handled, "assert")
            ELSE IF IsWholeRead(m.insts[i])
            THEN handled
            ELSE BufferAddress(handled, sharp.buffer)

-----------------------------------------------------------------------------
(* Image instruction patcher *)

\* the lambda pred of PatchImageInstruction
IsProducerOpcode(opcode) ==
    opcode \in {"CompositeConstructU32x2", "ReadConst", "GetUserData"}

\* the operands of an instruction that are instructions, in operand order
InstArgs(a, inst) ==
    LET refs == SelectSeq(a[inst].args, LAMBDA val : val.k = "inst")
    IN [n \in 1..Len(refs) |-> refs[n].v]

\* the same operands as a set
OperandsOf(a, i) ==
    {a[i].args[n].v : n \in {n \in 1..Len(a[i].args) : a[i].args[n].k = "inst"}}

\* the instructions the deque can come to hold, starting from frontier
RECURSIVE ReachableFrom(_, _, _)
ReachableFrom(a, frontier, seen) ==
    IF frontier \subseteq seen THEN seen
    ELSE ReachableFrom(a, UNION {OperandsOf(a, i) : i \in frontier \ seen},
                       seen \cup frontier)

\* the loop over the deque, run while a recognised producer is still ahead
RECURSIVE ScanDeque(_, _)
ScanDeque(a, queue) ==
    LET producer == Head(queue) IN
    IF IsProducerOpcode(a[producer].op) THEN producer
    ELSE ScanDeque(a, Tail(queue) \o InstArgs(a, producer))

\* the instructions the loop examines at the front of the deque, in order;
\* defined where the loop ends
RECURSIVE ExaminedBy(_, _)
ExaminedBy(a, queue) ==
    IF queue = <<>> THEN <<>>
    ELSE LET producer == Head(queue) IN
         IF IsProducerOpcode(a[producer].op) THEN <<producer>>
         ELSE <<producer>> \o ExaminedBy(a, Tail(queue) \o InstArgs(a, producer))

\* the producer search of PatchImageInstruction with its ASSERT.  The deque
\* holds every operand path, never a visited set: with no recognised producer
\* among the instructions reachable from inst it runs dry (and the ASSERT
\* fails) when they form no cycle, and never ends when they do.
SearchProducer(a, inst) ==
    LET reach == ReachableFrom(a, {inst}, {}) IN
    IF \E i \in reach : IsProducerOpcode(a[i].op)
    THEN [fail |-> "none", producer |-> ScanDeque(a, <<inst>>)]
    ELSE IF \E i \in reach : i \in ReachableFrom(a, OperandsOf(a, i), {})
    THEN [fail |-> "hang", producer |-> 0]
    ELSE [fail |-> "assert", producer |-> 0]

\* the immediates of the anisotropy idiom: 0x0008000c, and 0xfffff1ff in its
\* two's complement reading
AnisoLodBits == 524300
AnisoMask == -3585

\* faulty variant of MasksOutAniso: any mask passes
MasksAnything(mask) == mask = mask

\* prod1->Arg(1).U32() != 0xfffff1ff, negated
MasksOutAniso(mask) == mask = AnisoMask

\* TryDisableAnisoLod0: the instruction to resolve the sampler from and whether
\* the idiom was found.  InstRecursive() of an operand that is an immediate,
\* and U32() of one that is an instruction, read the wrong member of the
\* value: the outcome is undefined.
TryDisableAnisoLod0(a, inst) ==
    LET not_found == [inst |-> inst, found |-> FALSE, fail |-> "none"]
        undefined == [inst |-> inst, found |-> FALSE, fail |-> "undefined"]
        prod0 == TryInstRecursive(a[inst].args[1])
        prod0_arg0 == TryInstRecursive(a[prod0].args[1])
        bits == TryInstRecursive(a[prod0_arg0].args[2])
        prod1 == TryInstRecursive(a[inst].args[2])
        prod2 == TryInstRecursive(a[inst].args[3])
    IN IF a[inst].op # "SelectU32" THEN not_found
       ELSE IF prod0 = 0 THEN undefined
       ELSE IF a[prod0].op # "IEqual"
               \/ ~(IsImmediate(a[prod0].args[2]) /\ a[prod0].args[2].v = 0)
       THEN not_found
       ELSE IF prod0_arg0 = 0 THEN undefined
       ELSE IF a[prod0_arg0].op # "BitFieldUExtract" THEN not_found
       ELSE IF bits = 0 \/ ~IsImmediate(a[bits].args[1]) THEN undefined
       ELSE IF a[bits].args[1].v # AnisoLodBits THEN not_found
       ELSE IF prod1 = 0 THEN undefined
       ELSE IF a[prod1].op # "BitwiseAnd32" THEN not_found
       ELSE IF ~IsImmediate(a[prod1].args[2]) THEN undefined
       ELSE IF ~MasksOutAniso(a[prod1].args[2].v) THEN not_found
       ELSE IF prod2 = 0 THEN undefined
       ELSE IF a[prod2].op # "GetUserData" /\ a[prod2].op # "ReadConst"
       THEN not_found
       ELSE [inst |-> prod2, found |-> TRUE, fail |-> "none"]

\* BitField<position, bits, u32>: the unsigned field of raw
BitField(raw, position, bits) == (raw \div (2 ^ position)) % (2 ^ bits)

\* the lambda sign_ext: s32(value << 24) >> 24.  The left shift keeps the low
\* 8 bits of value, the arithmetic right shift extends bit 7 of them.
SignExt(value) ==
    LET low8 == value % 256 IN
    IF low8 >= 128 THEN low8 - 256 ELSE low8

\* the has_offset branch of PatchImageInstruction
PatchImageOffset(m) ==
    LET i == InstOf(m)
        inst_info == m.insts[i].flags
        arg_pos == IF inst_info.is_depth THEN 4 ELSE 3
        arg == m.insts[i].args[arg_pos + 1]
    IN IF arg.k # "imm" THEN Failed(m, "assert")
       ELSE LET x == BitField(arg.v, 0, 6)
                y == BitField(arg.v, 8, 6)
                e == Emit(m, "CompositeConstructU32x2",
                          <<Imm(SignExt(x)), Imm(SignExt(y))>>)
            IN SetArg(e, i, arg_pos, Emitted(e))

\* faulty variant of PatchCubeCoord: s and t are passed on as they are
CubeCoordAsGiven(m, s, t, z) ==
    Emit(m, "CompositeConstructF32x3", <<s, t, z>>)

\* PatchCubeCoord
PatchCubeCoord(m, s, t, z) ==
    LET e1 == Emit(m, "FPSub32", <<s, ImmF(3)>>)
        e2 == Emit(e1, "FPSub32", <<t, ImmF(3)>>)
    IN Emit(e2, "CompositeConstructF32x3", <<Emitted(e1), Emitted(e2), z>>)

\* the lambda computing [coords, arg] from the image type: the machine after
\* the composite is emitted, the coordinate value and the trailing argument
ImageCoords(m, type) ==
    LET body == m.insts[TryInstRecursive(m.insts[InstOf(m)].args[2])].args IN
    CASE type = "Color1D" ->
           [m |-> m, coords |-> body[1], arg |-> body[2]]
      [] type \in {"Color1DArray", "Color2D"} ->
           LET e == Emit(m, "CompositeConstructF32x2", <<body[1], body[2]>>)
           IN [m |-> e, coords |-> Emitted(e), arg |-> body[3]]
      [] type \in {"Color2DArray", "Color2DMsaa", "Color3D"} ->
           LET e == Emit(m, "CompositeConstructF32x3", <<body[1], body[2], body[3]>>)
           IN [m |-> e, coords |-> Emitted(e), arg |-> body[4]]
      [] type = "Cube" ->
           LET e == PatchCubeCoord(m, body[1], body[2], body[3])
           IN [m |-> e, coords |-> Emitted(e), arg |-> body[4]]
      [] OTHER ->
           [m |-> Failed(m, "assert"), coords |-> Imm(0), arg |-> Imm(0)]

\* faulty variant of LodSlot: slot 3 whatever the opcode
LodSlotAlwaysThree(op) == 3

\* const u32 pos = inst.GetOpcode() == ImageSampleExplicitLod ? 2 : 3
LodSlot(op) == IF op = "ImageSampleExplicitLod" THEN 2 ELSE 3

\* the tail of PatchImageInstruction: coordinates, texel offset, lod arguments
PatchImageOperands(m, type) ==
    LET i == InstOf(m)
        op == m.insts[i].op
        inst_info == m.insts[i].flags
        c == ImageCoords(m, type)
        coorded == SetArg(c.m, i, 1, c.coords)
        offs == IF inst_info.has_offset THEN PatchImageOffset(coorded) ELSE coorded
        clamped == IF inst_info.has_lod_clamp
                   THEN SetArg(offs, i, IF inst_info.is_depth THEN 5 ELSE 4, c.arg)
                   ELSE offs
    IN IF c.m.fail # "none" THEN c.m
       ELSE IF offs.fail # "none" THEN offs
       ELSE IF ~inst_info.explicit_lod THEN clamped
       ELSE IF op \notin {"ImageFetch", "ImageSampleExplicitLod",
                          "ImageSampleDrefExplicitLod"}
       THEN Failed(clamped, "assert")
       ELSE SetArg(clamped, i, LodSlot(op), c.arg)

\* faulty variant of PackHandle: the sampler binding is shifted by 8 bits
PackHandleByEight(image_binding, sampler_binding) ==
    image_binding + sampler_binding * 256

\* image_binding |= (sampler_binding << 16), both below 16
PackHandle(image_binding, sampler_binding) ==
    image_binding + sampler_binding * 65536

\* the sampler half of PatchImageInstruction: the machine after the sampler is
\* registered, binding the packed handle
BindSampler(m, ssharp_handle, image_binding) ==
    LET aniso == TryDisableAnisoLod0(m.insts, ssharp_handle)
        ssharp == TrackSharp(m.insts, aniso.inst)
        r == RegisterSamplerResource(m,
                SamplerResource(ssharp.sgpr_base, ssharp.dword_offset, image_binding,
                                aniso.found))
    IN IF aniso.fail # "none" THEN Failed(m, aniso.fail)
       ELSE IF ssharp.fail # "none" THEN Failed(m, ssharp.fail)
       ELSE IF r.fail # "none" THEN r
       ELSE [r EXCEPT !.binding = PackHandle(image_binding, r.binding)]

\* PatchImageInstruction
PatchImageInstruction(m) ==
    LET a == m.insts
        i == InstOf(m)
        found == SearchProducer(a, i)
        producer == found.producer
        combined == a[producer].op = "CompositeConstructU32x2"
        tsharp_handle == IF combined THEN TryInstRecursive(a[producer].args[1])
                         ELSE producer
        ssharp_handle == IF combined THEN TryInstRecursive(a[producer].args[2]) ELSE 0
        tsharp == TrackSharp(a, tsharp_handle)
        image == ReadUd(m.info, tsharp.sgpr_base, tsharp.dword_offset).image
        bound == RegisterImageResource(m,
                    ImageResource(tsharp.sgpr_base, tsharp.dword_offset, image.type,
                                  image.nfmt, IsImageStorageInstruction(a[i]),
                                  a[i].flags.is_depth))
        sampled == IF ssharp_handle # 0
                   THEN BindSampler(bound, ssharp_handle, bound.binding)
                   ELSE bound
        handled == SetArg(sampled, i, 0, Imm(sampled.binding))
    IN IF found.fail # "none" THEN Failed(m, found.fail)
       ELSE IF combined /\ (tsharp_handle = 0 \/ ssharp_handle = 0)
       THEN Failed(m, "undefined")
       ELSE IF tsharp.fail # "none" THEN Failed(m, tsharp.fail)
       ELSE IF bound.fail # "none" THEN bound
       ELSE IF sampled.fail # "none" THEN sampled
       ELSE IF a[i].op = "ImageQueryDimensions" THEN handled
       ELSE PatchImageOperands(handled, image.type)

-----------------------------------------------------------------------------
(* Programs handed to the pass.  Every program shares one operand graph (its *)
(* descriptor producers, handles, address and coordinate operands), followed *)
(* in the arena by its resource instructions.                                *)

\* the places of the operand graph the resource instructions refer to
Node ==
    [hMemory |-> 8,     \* buffer handle: V# at dword 0 behind the pointer in s[0:1]
     hDirect |-> 13,    \* buffer handle: V# held in s[4:7]
     hPhi |-> 15,       \* the same V#, its first word reached through a Phi
     tMemory |-> 16,    \* T# at dword 8 behind the pointer in s[0:1]
     tDirect |-> 9,     \* T# held in user data from s4 on
     hCombined |-> 18,  \* image and sampler handle: T# of tMemory, S# in s[12:15]
     hInline |-> 21,    \* buffer handle of the inline constant buffer idiom
     vIndex |-> 22,     \* vector register holding the index
     vOffset |-> 23,    \* vector register holding the byte offset
     vAddress |-> 24,   \* the pair (index, offset)
     vValue |-> 25,     \* the value a store writes
     vBody |-> 29,      \* coordinate body of an image instruction
     hTable |-> 36,     \* buffer handle: V# at dword 4 behind the pointer in s[12:13]
     hOther |-> 37,     \* image and sampler handle: T# of tDirect, S# in s[12:15]
     hSecond |-> 38,    \* image and sampler handle: T# of tDirect, S# from s13 on
     sAniso |-> 43,     \* S# in s[12:15] behind the idiom that disables anisotropy
     hAniso |-> 44]     \* image and sampler handle: T# of tMemory, S# of sAniso

OperandGraph ==
    << Inst("GetUserData", <<Imm(0)>>, NoFlags),
       Inst("GetUserData", <<Imm(1)>>, NoFlags),
       Inst("CompositeConstructU32x2", <<Ref(1), Ref(2)>>, NoFlags),
       Inst("ReadConst", <<Ref(3), Imm(0)>>, NoFlags),
       Inst("ReadConst", <<Ref(3), Imm(1)>>, NoFlags),
       Inst("ReadConst", <<Ref(3), Imm(2)>>, NoFlags),
       Inst("ReadConst", <<Ref(3), Imm(3)>>, NoFlags),
       Inst("CompositeConstructU32x4", <<Ref(4), Ref(5), Ref(6), Ref(7)>>, NoFlags),
       Inst("GetUserData", <<Imm(4)>>, NoFlags),
       Inst("GetUserData", <<Imm(5)>>, NoFlags),
       Inst("GetUserData", <<Imm(6)>>, NoFlags),
       Inst("GetUserData", <<Imm(7)>>, NoFlags),
       Inst("CompositeConstructU32x4", <<Ref(9), Ref(10), Ref(11), Ref(12)>>, NoFlags),
       Inst("Phi", <<Ref(9)>>, NoFlags),
       Inst("CompositeConstructU32x4", <<Ref(14), Ref(10), Ref(11), Ref(12)>>, NoFlags),
       Inst("ReadConst", <<Ref(3), Imm(8)>>, NoFlags),
       Inst("GetUserData", <<Imm(12)>>, NoFlags),
       Inst("CompositeConstructU32x2", <<Ref(16), Ref(17)>>, NoFlags),
       Inst("IAdd32", <<Imm(256), Imm(32)>>, NoFlags),
       Inst("IAdd32", <<Ref(2), Imm(0)>>, NoFlags),
       Inst("CompositeConstructU32x4", <<Ref(19), Ref(20), Imm(64), Imm(0)>>, NoFlags),
       Inst("GetAttributeU32", <<Imm(0)>>, NoFlags),
       Inst("GetAttributeU32", <<Imm(1)>>, NoFlags),
       Inst("CompositeConstructU32x2", <<Ref(22), Ref(23)>>, NoFlags),
       Inst("GetAttribute", <<Imm(2)>>, NoFlags),
       Inst("GetAttribute", <<Imm(3)>>, NoFlags),
       Inst("GetAttribute", <<Imm(4)>>, NoFlags),
       Inst("GetAttribute", <<Imm(5)>>, NoFlags),
       Inst("CompositeConstructF32x4", <<Ref(25), Ref(26), Ref(27), Ref(28)>>, NoFlags),
       Inst("GetUserData", <<Imm(13)>>, NoFlags),
       Inst("CompositeConstructU32x2", <<Ref(17), Ref(30)>>, NoFlags),
       Inst("ReadConst", <<Ref(31), Imm(4)>>, NoFlags),
       Inst("ReadConst", <<Ref(31), Imm(5)>>, NoFlags),
       Inst("ReadConst", <<Ref(31), Imm(6)>>, NoFlags),
       Inst("ReadConst", <<Ref(31), Imm(7)>>, NoFlags),
       Inst("CompositeConstructU32x4", <<Ref(32), Ref(33), Ref(34), Ref(35)>>, NoFlags),
       Inst("CompositeConstructU32x2", <<Ref(9), Ref(17)>>, NoFlags),
       Inst("CompositeConstructU32x2", <<Ref(9), Ref(30)>>, NoFlags),
       Inst("BitwiseAnd32", <<Imm(AnisoLodBits), Imm(31)>>, NoFlags),
       Inst("BitFieldUExtract", <<Ref(16), Ref(39), Imm(8)>>, NoFlags),
       Inst("IEqual", <<Ref(40), Imm(0)>>, NoFlags),
       Inst("BitwiseAnd32", <<Ref(17), Imm(AnisoMask)>>, NoFlags),
       Inst("SelectU32", <<Ref(41), Ref(42), Ref(17)>>, NoFlags),
       Inst("CompositeConstructU32x2", <<Ref(16), Ref(43)>>, NoFlags) >>

\* what a location of user data or of the memory behind it decodes to, read
\* as a V# and read as a T#
Sharp(buffer, type) == [buffer |-> buffer, image |-> [type |-> type, nfmt |-> "Float"]]

\* the pointer held in s[0:1], as a <<low, high>> pair of words
TablePointer == <<4096, 0>>

\* the pointer held in s[12:13]
SecondPointer == <<16384, 0>>

UserData == [r \in 0..15 |-> IF r = 0 THEN 4096 ELSE IF r = 12 THEN 16384 ELSE 0]

\* s[4:7] holds a V# of 256 records of 16 bytes; behind the pointer lie a V# of
\* 16384 records of 8 bytes (more than a uniform buffer takes) and a T#; at
\* dword 4 behind the pointer in s[12:13] lies a V# of 256 records of 16 bytes
Memory ==
    [base \in {UserDataAddr, TablePointer, SecondPointer} |->
        [d \in 0..15 |->
            IF base = UserDataAddr
            THEN (IF d = 4 THEN Sharp(Buffer(8192, 16, 256, FALSE, FALSE), "Color3D")
                  ELSE Sharp(Buffer(8192, 4, 16, FALSE, FALSE), "Color1D"))
            ELSE IF base = TablePointer
            THEN (IF d = 0 THEN Sharp(Buffer(12288, 8, 16384, FALSE, FALSE), "Color2D")
                  ELSE IF d = 4 THEN Sharp(Buffer(12288, 16, 4096, FALSE, FALSE), "Color2D")
                  ELSE IF d = 8 THEN Sharp(Buffer(12288, 16, 4097, FALSE, FALSE), "Color2D")
                  ELSE Sharp(Buffer(12288, 4, 16, FALSE, FALSE), "Color2D"))
            ELSE (IF d = 4 THEN Sharp(Buffer(20480, 16, 256, FALSE, FALSE), "Color2D")
                  ELSE Sharp(Buffer(20480, 4, 16, FALSE, FALSE), "Color2D"))]]

ProgramInfo == [EmptyInfo EXCEPT !.user_data = UserData, !.memory = Memory,
                                 !.pgm_base = 4096]

\* a buffer load or store of the element at Node.vIndex
BufferInst(op, handle, addr, flags) ==
    Inst(op, IF op \in BufferStoreOpcodes THEN <<Ref(handle), Ref(addr), Ref(Node.vValue)>>
             ELSE <<Ref(handle), Ref(addr)>>, flags)

\* an image instruction: handle, coordinate body and four further operands
ImageInst(op, handle, flags, extra) ==
    Inst(op, <<Ref(handle), Ref(Node.vBody)>> \o extra, flags)

NoExtra == <<Imm(0), Imm(0), Imm(0), Imm(0)>>

(* Bounds of the model *)

\* resource instructions of a program of the general family
MaxProgramLen == 3

Catalogue ==
    { BufferInst("LoadBufferF32", h, Node.vIndex, BufferFlags(TRUE, FALSE, 0)) :
        h \in {Node.hMemory, Node.hDirect, Node.hPhi, Node.hInline} }
    \cup
    { BufferInst("StoreBufferU32", h, Node.vIndex, BufferFlags(TRUE, FALSE, 0)) :
        h \in {Node.hMemory, Node.hDirect} }
    \cup
    { ImageInst(op, h, NoFlags, NoExtra) :
        op \in {"ImageSampleImplicitLod", "ImageRead"}, h \in {Node.hCombined, Node.tMemory} }
    \cup
    { ImageInst("ImageQueryDimensions", Node.tDirect, NoFlags, NoExtra),
      Inst("IAdd32", <<Ref(Node.vIndex), Imm(1)>>, NoFlags) }

\* the general family: up to MaxProgramLen instructions of the catalogue, the
\* first in a block of its own, then an empty block, then the others
GeneralPrograms ==
    UNION { [1..n -> Catalogue] : n \in 1..MaxProgramLen }

\* the addressing family: one buffer instruction under every combination of
\* index_enable and offset_enable
AddressOperand(index_enable, offset_enable) ==
    IF index_enable /\ offset_enable THEN Node.vAddress
    ELSE IF offset_enable THEN Node.vOffset ELSE Node.vIndex

AddressPrograms ==
    { << BufferInst(op, h, AddressOperand(ie, oe), BufferFlags(ie, oe, off)) >> :
        op \in {"LoadBufferF32", "StoreBufferF32", "ReadConstBuffer", "ReadConstBufferU32"},
        h \in {Node.hMemory, Node.hDirect, Node.hTable},
        ie \in BOOLEAN, oe \in BOOLEAN, off \in {0, 4, 20} }

\* the values of a six-bit signed texel offset
OffsetRange == -32..31

\* the texel offsets x, y, z as 6-bit two's complement fields at bits 0, 8, 16
PackOffset(x, y, z) == (x % 64) + (y % 64) * 256 + (z % 64) * 65536

\* the texel-offset family: one sample instruction with has_offset, the packed
\* offset in the operand slot has_offset reads
OffsetPrograms ==
    { << ImageInst("ImageSampleImplicitLod", Node.hCombined,
                   TextureFlags(FALSE, TRUE, FALSE, FALSE),
                   <<Imm(0), Imm(PackOffset(x, y, z)), Imm(0), Imm(0)>>) >> :
        x \in OffsetRange, y \in {-32, -17, -1, 0, 1, 15, 16, 31},
        z \in {-32, -1, 0, 31} }

Programs == GeneralPrograms \cup AddressPrograms \cup OffsetPrograms

\* the inline constant buffer family: the idiom s_getpc / s_add / s_addc /
\* s_mov / s_movk built by the program itself from four immediates, then one
\* load through it; run with several program bases and user data tables
InlineProgram(imm0, imm1, imm2, imm3) ==
    LET n == Len(OperandGraph) IN
    << Inst("IAdd32", <<Imm(imm0), Imm(imm1)>>, NoFlags),
       Inst("IAdd32", <<Ref(2), Imm(0)>>, NoFlags),
       Inst("CompositeConstructU32x4", <<Ref(n + 1), Ref(n + 2), Imm(imm2), Imm(imm3)>>,
            NoFlags),
       BufferInst("LoadBufferF32", n + 3, Node.vIndex, BufferFlags(TRUE, FALSE, 0)) >>

InlineImmediates == {256, 0} \X {32, 4} \X {43690, 16} \X {48059, 0}

\* another user data table: the pointers swapped
OtherUserData == [r \in 0..15 |-> IF r = 0 THEN 16384 ELSE IF r = 12 THEN 4096 ELSE 0]

InlineSetups ==
    { [program |-> InlineProgram(i[1], i[2], i[3], i[4]),
       info |-> [ProgramInfo EXCEPT !.pgm_base = base, !.user_data = table]] :
        i \in InlineImmediates, base \in {4096, 8192}, table \in {UserData, OtherUserData} }

\* the graph family: two instructions of any shape over a few operands, each
\* other and themselves among them, so that Phi chains, Phi cycles, constant
\* reads over composites and unsupported shapes all occur; the second one is
\* the producer of the handle of one buffer load, or the handle of one image
\* instruction
GraphFirstOperands ==
    LET n == Len(OperandGraph) IN {Ref(9), Ref(3), Ref(14), Ref(n + 1), Ref(n + 2)}

GraphShapes ==
    { Inst("Phi", <<r>>, NoFlags) : r \in GraphFirstOperands }
    \cup { Inst(op, <<r, Ref(2)>>, NoFlags) :
             op \in {"Phi", "IAdd32"}, r \in GraphFirstOperands }
    \cup { Inst("CompositeConstructU32x2", <<r, q>>, NoFlags) :
             r \in GraphFirstOperands, q \in {Ref(2), Imm(0)} }
    \cup { Inst("ReadConst", <<r, Imm(d)>>, NoFlags) :
             r \in GraphFirstOperands, d \in {4, 8} }

GraphBufferProgram(x1, x2) ==
    LET n == Len(OperandGraph) IN
    << x1, x2,
       Inst("CompositeConstructU32x4", <<Ref(n + 2), Ref(10), Ref(11), Ref(12)>>, NoFlags),
       BufferInst("LoadBufferF32", n + 3, Node.vIndex, BufferFlags(TRUE, FALSE, 0)) >>

GraphImageProgram(x1, x2) ==
    << x1, x2, ImageInst("ImageSampleImplicitLod", Len(OperandGraph) + 2, NoFlags, NoExtra) >>

GraphSetups ==
    { [program |-> prog, info |-> ProgramInfo] :
        prog \in { GraphBufferProgram(x[1], x[2]) : x \in GraphShapes \X GraphShapes }
                 \cup { GraphImageProgram(x[1], x[2]) : x \in GraphShapes \X GraphShapes } }

\* one access, op, to the descriptor at dword d of the table s[0:1] points to
TableAccess(op, d) ==
    LET n == Len(OperandGraph) IN
    << Inst("ReadConst", <<Ref(3), Imm(d)>>, NoFlags),
       Inst("CompositeConstructU32x4", <<Ref(n + 1), Ref(10), Ref(11), Ref(12)>>, NoFlags),
       BufferInst(op, n + 2, Node.vIndex, BufferFlags(TRUE, FALSE, 0)) >>

\* one access, op, to an inline constant buffer of the given number of records
InlineAccess(op, records) ==
    LET n == Len(OperandGraph) IN
    << Inst("IAdd32", <<Imm(256), Imm(32)>>, NoFlags),
       Inst("IAdd32", <<Ref(2), Imm(0)>>, NoFlags),
       Inst("CompositeConstructU32x4", <<Ref(n + 1), Ref(n + 2), Imm(records), Imm(0)>>,
            NoFlags),
       BufferInst(op, n + 3, Node.vIndex, BufferFlags(TRUE, FALSE, 0)) >>

SizeAccesses == {"LoadBufferF32", "StoreBufferF32", "ReadConstBuffer"}

\* record counts of the inline buffers: with stride 16, one record below the
\* uniform buffer size, exactly that size, and one record above it
SizeRecords == {4095, 4096, 4097}

\* high words of pgm_base: a zero stride field, and a stride field of 16
SizeHighWords == {0, 16 * (2 ^ 16)}

\* accesses to descriptors around the uniform buffer size, in a table and inline
SizeSetups ==
    { [program |-> TableAccess(op, d), info |-> ProgramInfo] :
        op \in SizeAccesses, d \in {0, 4, 8, 12} }
    \cup { [program |-> InlineAccess(op, records),
            info |-> [ProgramInfo EXCEPT !.pgm_base_hi = hi]] :
              op \in SizeAccesses, records \in SizeRecords, hi \in SizeHighWords }

\* the image types a T# can declare: those PatchImageInstruction knows, and two
\* it does not
KnownImageTypes ==
    {"Color1D", "Color1DArray", "Color2D", "Color2DArray", "Color2DMsaa", "Color3D", "Cube"}

ImageTypes == KnownImageTypes \cup {"Buffer", "Color2DMsaaArray"}

\* the memory with the T# of tMemory declaring the given type
MemoryWith(type) == [Memory EXCEPT ![TablePointer][8].image.type = type]

\* the operands of an image instruction behind handle and coordinate body,
\* slots 2 to 5, each recognisable
SlotOperands == <<Imm(100), Imm(101), Imm(102), Imm(103)>>

CoordOpcodes ==
    {"ImageSampleImplicitLod", "ImageSampleExplicitLod", "ImageSampleDrefExplicitLod",
     "ImageSampleDrefImplicitLod", "ImageFetch", "ImageGather", "ImageQueryDimensions"}

\* the coordinate family: one image instruction of every opcode and flag
\* combination on a T# of every type
CoordSetups ==
    { [program |-> << ImageInst(op, h, TextureFlags(depth, offset, clamp, lod),
                                SlotOperands) >>,
       info |-> [ProgramInfo EXCEPT !.memory = MemoryWith(type)]] :
        op \in CoordOpcodes, h \in {Node.hCombined, Node.tMemory},
        depth \in BOOLEAN, offset \in BOOLEAN, clamp \in BOOLEAN, lod \in BOOLEAN,
        type \in ImageTypes }

\* the idiom s_bfe_u32 / s_and_b32 / s_cmp_eq_u32 / s_cselect_b32 as the
\* program builds it, by the parts TryDisableAnisoLod0 looks at
Idiom ==
    [bits |-> AnisoLodBits, field |-> "BitFieldUExtract", position |-> "inst",
     cond |-> "IEqual", zero |-> 0, and |-> "BitwiseAnd32", mask |-> AnisoMask,
     select |-> "SelectU32"]

\* the idiom and its near misses, each differing from it in one part
IdiomVariants ==
    { Idiom,
      [Idiom EXCEPT !.bits = AnisoLodBits + 1],
      [Idiom EXCEPT !.field = "BitFieldSExtract"],
      [Idiom EXCEPT !.position = "imm"],
      [Idiom EXCEPT !.cond = "INotEqual"],
      [Idiom EXCEPT !.zero = 1],
      [Idiom EXCEPT !.and = "BitwiseOr32"],
      [Idiom EXCEPT !.mask = -1],
      [Idiom EXCEPT !.select = "SelectF32"] }

\* what the select falls back to: S# word in s12, S# word read from the table
\* behind s[12:13], S# word behind a Phi
IdiomChoices == {Ref(17), Ref(35), Ref(14)}

\* one sample through a sampler handle built as variant v over choice
IdiomProgram(v, choice) ==
    LET n == Len(OperandGraph) IN
    << Inst("BitwiseAnd32", <<Imm(v.bits), Imm(31)>>, NoFlags),
       Inst(v.field, <<Ref(16), IF v.position = "inst" THEN Ref(n + 1) ELSE Imm(12),
                       Imm(8)>>, NoFlags),
       Inst(v.cond, <<Ref(n + 2), Imm(v.zero)>>, NoFlags),
       Inst(v.and, <<choice, Imm(v.mask)>>, NoFlags),
       Inst(v.select, <<Ref(n + 3), Ref(n + 4), choice>>, NoFlags),
       Inst("CompositeConstructU32x2", <<Ref(16), Ref(n + 5)>>, NoFlags),
       ImageInst("ImageSampleImplicitLod", n + 6, NoFlags, NoExtra) >>

IdiomSetups ==
    { [program |-> IdiomProgram(v, choice), info |-> ProgramInfo] :
        v \in IdiomVariants, choice \in IdiomChoices }

\* the image accesses of the pair family: sampled and storage accesses through
\* combined handles and through bare T#
PairCatalogue ==
    { ImageInst(op, h, NoFlags, NoExtra) :
        op \in {"ImageSampleImplicitLod", "ImageRead"},
        h \in {Node.hCombined, Node.hOther, Node.hSecond, Node.hAniso,
               Node.tMemory, Node.tDirect} }

\* the pair family: a buffer load or an addition, then two image accesses
PairSetups ==
    { [program |-> <<x, i1, i2>>, info |-> ProgramInfo] :
        x \in { BufferInst("LoadBufferF32", Node.hDirect, Node.vIndex,
                           BufferFlags(TRUE, FALSE, 0)),
                Inst("IAdd32", <<Ref(Node.vIndex), Imm(1)>>, NoFlags) },
        i1 \in PairCatalogue, i2 \in PairCatalogue }

ImageSetups == CoordSetups \cup IdiomSetups \cup PairSetups

\* one access, op, to an inline constant buffer whose last word is word3
InlineModeAccess(op, word3) ==
    LET n == Len(OperandGraph) IN
    << Inst("IAdd32", <<Imm(256), Imm(32)>>, NoFlags),
       Inst("IAdd32", <<Ref(2), Imm(0)>>, NoFlags),
       Inst("CompositeConstructU32x4", <<Ref(n + 1), Ref(n + 2), Imm(16), Imm(word3)>>,
            NoFlags),
       BufferInst(op, n + 3, Node.vIndex, BufferFlags(TRUE, FALSE, 0)) >>

\* the memory with the V# at dword 12 of the table declaring the given modes
MemoryWithModes(swizzle, add_tid) ==
    [Memory EXCEPT ![TablePointer][12].buffer = Buffer(12288, 16, 16, swizzle, add_tid)]

\* accesses to descriptors with and without swizzled and thread-relative
\* addressing, in a table and inline (bit 23 of the last word is add_tid_enable,
\* the top bit of the first half swizzle_enable)
ModeSetups ==
    { [program |-> TableAccess(op, 12),
       info |-> [ProgramInfo EXCEPT !.memory = MemoryWithModes(swizzle, add_tid)]] :
        op \in SizeAccesses, swizzle \in BOOLEAN, add_tid \in BOOLEAN }
    \cup { [program |-> InlineModeAccess(op, word3),
            info |-> [ProgramInfo EXCEPT !.pgm_base_hi = hi]] :
              op \in SizeAccesses, word3 \in {0, 2 ^ 23, 2 ^ 23 + 48059, 2 ^ 22},
              hi \in {0, -1} }

\* a program and the Info it is compiled with
\* two accesses to V# read from tables: the first, op, at dword d1 behind
\* s[0:1], the second at dword d2 behind the pointer pair base
TwinAccess(op, d1, base, d2) ==
    LET n == Len(OperandGraph) IN
    << Inst("ReadConst", <<Ref(3), Imm(d1)>>, NoFlags),
       Inst("CompositeConstructU32x4", <<Ref(n + 1), Ref(10), Ref(11), Ref(12)>>, NoFlags),
       BufferInst(op, n + 2, Node.vIndex, BufferFlags(TRUE, FALSE, 0)),
       Inst("ReadConst", <<base, Imm(d2)>>, NoFlags),
       Inst("CompositeConstructU32x4", <<Ref(n + 4), Ref(10), Ref(11), Ref(12)>>, NoFlags),
       BufferInst("LoadBufferU32", n + 5, Node.vIndex, BufferFlags(TRUE, FALSE, 0)) >>

\* the twin family: the same table and dword twice, the same dword of two
\* tables, two dwords of one table
TwinSetups ==
    { [program |-> TwinAccess(op, d1, base, d2), info |-> ProgramInfo] :
        op \in {"LoadBufferF32", "StoreBufferU32"}, d1 \in {0, 4, 8},
        base \in {Ref(3), Ref(31)}, d2 \in {0, 4, 8} }

Setups ==
    { [program |-> p, info |-> ProgramInfo] : p \in Programs }
    \cup InlineSetups \cup SizeSetups \cup ModeSetups \cup TwinSetups

\* the blocks of a program of n instructions placed behind the operand graph
BlocksOf(n) ==
    LET first == Len(OperandGraph) + 1 IN
    << <<first>>, <<>>, [k \in 1..(n - 1) |-> first + k] >>

-----------------------------------------------------------------------------
(* Pass driver *)

\* faulty variant of NextPosition: the walk ends at the first empty block
NextPositionStopsAtEmpty(bs, b, p) ==
    IF b > Len(bs) THEN [block |-> 0, pos |-> 0]
    ELSE IF p <= Len(bs[b]) THEN [block |-> b, pos |-> p]
    ELSE IF b + 1 <= Len(bs) /\ Len(bs[b + 1]) > 0 THEN [block |-> b + 1, pos |-> 1]
    ELSE [block |-> 0, pos |-> 0]

\* the position the two range-for loops reach next from block b, position p:
\* block 0 once every block is walked
RECURSIVE NextPosition(_, _, _)
NextPosition(bs, b, p) ==
    IF b > Len(bs) THEN [block |-> 0, pos |-> 0]
    ELSE IF p <= Len(bs[b]) THEN [block |-> b, pos |-> p]
    ELSE NextPosition(bs, b + 1, 1)

\* the arena: the operand graph, then the program's instructions and those
\* the patchers emitted
Arena == OperandGraph \o insts

Machine ==
    [insts |-> Arena, block |-> blocks[cursor.block], pos |-> cursor.pos, info |-> info,
     calls |-> calls, fail |-> "none", binding |-> 0]

Visiting == Arena[blocks[cursor.block][cursor.pos]]

\* what reading through a null or invalid IR::Inst pointer (InstRecursive of
\* an immediate, TryInstRecursive returning null) can end in: the assertion
\* of a checked build, or a crash
UndefinedOutcomes == {"assert", "crash"}

\* the state a patcher leaves, and the loops' step to the next instruction;
\* visited is the history of the dispatches made
Leave(m, patcher) ==
    LET bs == [blocks EXCEPT ![cursor.block] = m.block]
        next == NextPosition(bs, cursor.block, m.pos + 1)
    IN /\ insts' = SubSeq(m.insts, Len(OperandGraph) + 1, Len(m.insts))
       /\ input' = input
       /\ visited' = Append(visited, [inst |-> blocks[cursor.block][cursor.pos],
                                      patcher |-> patcher])
       /\ blocks' = bs
       /\ info' = m.info
       /\ calls' = m.calls
       /\ IF m.fail = "undefined"
          THEN /\ status' \in UndefinedOutcomes
               /\ cursor' = [block |-> cursor.block, pos |-> m.pos]
          ELSE IF m.fail # "none"
          THEN status' = m.fail /\ cursor' = [block |-> cursor.block, pos |-> m.pos]
          ELSE /\ cursor' = next
               /\ status' = IF next.block = 0 THEN "done" ELSE "running"

VisitBuffer ==
    /\ status = "running"
    /\ IsBufferInstruction(Visiting)
    /\ Leave(PatchBufferInstruction(Machine), "buffer")

VisitImage ==
    /\ status = "running"
    /\ ~IsBufferInstruction(Visiting)
    /\ IsImageInstruction(Visiting)
    /\ Leave(PatchImageInstruction(Machine), "image")

VisitOther ==
    /\ status = "running"
    /\ ~IsBufferInstruction(Visiting)
    /\ ~IsImageInstruction(Visiting)
    /\ Leave(Machine, "none")

Next == VisitBuffer \/ VisitImage \/ VisitOther

InitWith(setups) ==
    /\ \E setup \in setups :
          /\ insts = setup.program
          /\ blocks = BlocksOf(Len(setup.program))
          /\ info = setup.info
    /\ input = insts
    /\ cursor = NextPosition(blocks, 1, 1)
    /\ status = "running"
    /\ calls = {}
    /\ visited = <<>>

Init == InitWith(Setups)

Spec == Init /\ [][Next]_vars

\* the pass run over the programs of the graph family
InitGraph == InitWith(GraphSetups)

SpecGraph == InitGraph /\ [][Next]_vars

\* the pass run over the programs of the image families
InitImage == InitWith(ImageSetups)

SpecImage == InitImage /\ [][Next]_vars


-----------------------------------------------------------------------------
(* Vocabulary of the properties *)

\* the value an IR operand computes when the attribute registers hold env:
\* the arithmetic of the opcodes the buffer and image patchers emit
RECURSIVE Eval(_, _, _)
Eval(a, val, env) ==
    IF val.k # "inst" THEN val.v
    ELSE LET inst == a[val.v]
             x == Eval(a, inst.args[1], env)
         IN CASE inst.op = "GetAttributeU32" -> env[x]
              [] inst.op = "IAdd32" -> x + Eval(a, inst.args[2], env)
              [] inst.op = "IMul32" -> x * Eval(a, inst.args[2], env)
              [] inst.op = "ShiftRightLogical32" ->
                    x \div (2 ^ Eval(a, inst.args[2], env))
              [] inst.op = "CompositeConstructU32x2" ->
                    <<x, Eval(a, inst.args[2], env)>>
              [] inst.op = "CompositeExtractU32x2" ->
                    x[Eval(a, inst.args[2], env) + 1]
              [] OTHER -> 0

\* contents of the attribute registers: index in register 0, byte offset in 1
Envs == [0..1 -> {0, 3, 4, 9}]

\* the instruction of the program as it entered the pass
InputInst(i) == input[i - Len(OperandGraph)]

\* the registrations of one kind that returned an index
OkCalls(kind) == {c \in calls : c.kind = kind /\ c.fail = "none"}

BufferIdentity(d) == <<d.sgpr_base, d.dword_offset, d.inline_cbuf>>
ImageIdentity(d) == <<d.sgpr_base, d.dword_offset, d.type, d.is_storage>>
SamplerIdentity(d) == <<d.sgpr_base, d.dword_offset>>

Kinds == {"buffer", "image", "sampler"}

ListOf(inf, kind) ==
    CASE kind = "buffer" -> inf.buffers
      [] kind = "image" -> inf.images
      [] OTHER -> inf.samplers

IdentityOf(kind, d) ==
    CASE kind = "buffer" -> BufferIdentity(d)
      [] kind = "image" -> ImageIdentity(d)
      [] OTHER -> SamplerIdentity(d)

HasIdentity(list, kind, id) ==
    \E p \in 1..Len(list) : IdentityOf(kind, list[p]) = id

-----------------------------------------------------------------------------
(* C1 *)

\* C1: registering two buffer candidates returns the same index if and only if
\* they agree on sgpr_base, dword_offset and inline_cbuf.
C1_BufferIdentity ==
    \A a \in OkCalls("buffer") : \A b \in OkCalls("buffer") :
        (a.index = b.index) <=> (BufferIdentity(a.desc) = BufferIdentity(b.desc))

\* two candidates that differ outside the identity share an index, a third that
\* differs in inline_cbuf alone has another
C1_Witness ==
    \E a \in OkCalls("buffer") : \E b \in OkCalls("buffer") : \E c \in OkCalls("buffer") :
        /\ a.desc # b.desc
        /\ a.index = b.index
        /\ a.desc.sgpr_base = c.desc.sgpr_base
        /\ a.desc.dword_offset = c.desc.dword_offset
        /\ a.desc.inline_cbuf # c.desc.inline_cbuf
        /\ a.index # c.index

-----------------------------------------------------------------------------
(* C3 *)

C3_Step(kind) ==
    LET old == ListOf(info, kind)
        new == ListOf(info', kind)
    IN /\ Len(new) \in {Len(old), Len(old) + 1}
       /\ \A p \in 1..Len(old) :
            IdentityOf(kind, new[p]) = IdentityOf(kind, old[p])
       /\ \A p \in 1..Len(new) : \A q \in 1..Len(new) :
            IdentityOf(kind, new[p]) = IdentityOf(kind, new[q]) => p = q
       /\ \A c \in calls' \ calls :
            (c.kind = kind /\ c.fail = "none") =>
                IF HasIdentity(old, kind, IdentityOf(kind, c.desc))
                THEN Len(new) = Len(old)
                ELSE c.index = Len(old) /\ Len(new) = Len(old) + 1
       /\ \A c \in calls' :
            (c.kind = kind /\ c.fail = "none") =>
                /\ c.index + 1 \in 1..Len(new)
                /\ IdentityOf(kind, new[c.index + 1]) = IdentityOf(kind, c.desc)

\* C3: the lists are append-only; a descriptor gets its index when it is first
\* registered (the n-th distinct descriptor gets n-1), and every index handed
\* out keeps denoting that descriptor.
C3_FirstEncounterOrder == [][\A kind \in Kinds : C3_Step(kind)]_vars

\* a pass registered buffer 0, then buffer 1, then met buffer 0 again
C3_Witness ==
    /\ status = "done"
    /\ Len(info.buffers) = 2
    /\ \E a \in OkCalls("buffer") : \E b \in OkCalls("buffer") : \E c \in OkCalls("buffer") :
        /\ a.inst < b.inst /\ b.inst < c.inst
        /\ a.index = 0 /\ b.index = 1 /\ c.index = 0

-----------------------------------------------------------------------------
(* C4 *)

\* C4: a buffer binding that a store instruction accessed has is_storage set,
\* whatever the order of the accesses; is_storage is never cleared.
C4_StoreMeansStorage ==
    [][ /\ \A p \in 1..Len(info.buffers) :
            info.buffers[p].is_storage => info.buffers'[p].is_storage
        /\ \A c \in calls' :
            (c.kind = "buffer" /\ c.fail = "none" /\ IsBufferStore(InputInst(c.inst)))
                => info.buffers'[c.index + 1].is_storage ]_vars

\* load, store, load of one small buffer: the loads alone do not ask for storage
C4_Witness ==
    /\ status = "done"
    /\ \E l \in OkCalls("buffer") : \E s \in OkCalls("buffer") : \E k \in OkCalls("buffer") :
        /\ l.inst < s.inst /\ s.inst < k.inst
        /\ l.index = s.index /\ s.index = k.index
        /\ ~IsBufferStore(InputInst(l.inst)) /\ ~l.desc.is_storage
        /\ IsBufferStore(InputInst(s.inst))
        /\ ~IsBufferStore(InputInst(k.inst)) /\ ~k.desc.is_storage
        /\ info.buffers[s.index + 1].is_storage

-----------------------------------------------------------------------------
(* C5 *)

C5_Conflicts(list, d) ==
    \E p \in 1..Len(list) :
        /\ BufferIdentity(list[p]) = BufferIdentity(d)
        /\ list[p].stride # d.stride \/ list[p].num_records # d.num_records

\* C5: registering a buffer candidate whose identity is in the list but whose
\* stride or num_records differs from the entry's fails the assertion and
\* aborts; no entry's stride or num_records is ever changed.
C5_LayoutConflictAborts ==
    [][ /\ \A p \in 1..Len(info.buffers) :
            /\ info.buffers'[p].stride = info.buffers[p].stride
            /\ info.buffers'[p].num_records = info.buffers[p].num_records
        /\ \A c \in calls' \ calls :
            (c.kind = "buffer" /\ C5_Conflicts(info.buffers, c.desc)) =>
                /\ c.fail = "assert"
                /\ status' = "assert"
                /\ info' = info
        /\ \A c \in calls' :
            (c.kind = "buffer" /\ c.fail = "none") =>
                ~C5_Conflicts(info.buffers', c.desc) ]_vars

\* a candidate with a known identity, the entry's stride and another
\* num_records was refused
C5_Witness ==
    /\ status = "assert"
    /\ \E c \in calls : \E p \in 1..Len(info.buffers) :
        /\ c.kind = "buffer" /\ c.fail = "assert"
        /\ BufferIdentity(info.buffers[p]) = BufferIdentity(c.desc)
        /\ info.buffers[p].stride = c.desc.stride
        /\ info.buffers[p].num_records # c.desc.num_records

-----------------------------------------------------------------------------
(* C6 *)

\* C6: no list ever holds more than 16 entries and no index of 16 or more is
\* returned; registering a new descriptor in a full list fails, aborts and
\* leaves the lists as they were.
C6_CapacitySixteen ==
    [][ /\ \A kind \in Kinds : Len(ListOf(info', kind)) <= 16
        /\ \A c \in calls' : c.index < 16 /\ (c.fail = "none" => c.index >= 0)
        /\ \A c \in calls' \ calls :
            LET list == ListOf(info, c.kind) IN
            (Len(list) = 16 /\ ~HasIdentity(list, c.kind, IdentityOf(c.kind, c.desc)))
                => /\ c.fail = "capacity"
                   /\ status' = "capacity"
                   /\ info' = info ]_vars

\* a seventeenth distinct image was refused
C6_Witness ==
    /\ status = "capacity"
    /\ Len(info.images) = 16
    /\ \E c \in calls :
        /\ c.kind = "image" /\ c.fail = "capacity"
        /\ ~HasIdentity(info.images, "image", ImageIdentity(c.desc))

-----------------------------------------------------------------------------
(* C7, C8 *)

\* the buffer instructions whose address operand PatchBufferInstruction wrote
AddressedCalls ==
    {c \in OkCalls("buffer") :
        /\ InputInst(c.inst).op \notin {"ReadConstBuffer", "ReadConstBufferU32"}
        /\ status \in {"running", "done"} \/ visited[Len(visited)].inst # c.inst}

\* the address operand of instruction i as the pass left it
WrittenAddress(i, env) == Eval(Arena, Arena[i].args[2], env)

\* the address operand of instruction i as the pass found it
GivenAddress(i, env) == Eval(Arena, InputInst(i).args[2], env)

\* C7: with only offset_enable set, the address written is B + (offset >> 2),
\* B the instruction's constant byte offset in dwords.
C7_OffsetOnlyAddress ==
    \A c \in AddressedCalls :
        LET flags == InputInst(c.inst).flags IN
        (flags.offset_enable /\ ~flags.index_enable) =>
            \A env \in Envs :
                WrittenAddress(c.inst, env)
                    = (flags.inst_offset \div 4) + (GivenAddress(c.inst, env) \div 4)

\* C8: with index_enable set, the address written is index * S + B, S the
\* descriptor's stride in dwords, plus (offset >> 2) when offset_enable is set
\* as well.
C8_IndexedAddress ==
    \A c \in AddressedCalls :
        LET flags == InputInst(c.inst).flags
            S == GetStrideElements(GetVsharp(c.desc, info), 4)
            B == flags.inst_offset \div 4
        IN flags.index_enable =>
            \A env \in Envs :
                LET given == GivenAddress(c.inst, env) IN
                WrittenAddress(c.inst, env)
                    = IF flags.offset_enable
                      THEN given[1] * S + B + (given[2] \div 4)
                      ELSE given * S + B

\* an indexed access with offset, with a stride of more than one dword and a
\* constant offset, has been patched
C8_Witness ==
    /\ status = "done"
    /\ \E c \in AddressedCalls :
        LET flags == InputInst(c.inst).flags IN
        /\ flags.index_enable /\ flags.offset_enable
        /\ flags.inst_offset = 20
        /\ GetStrideElements(GetVsharp(c.desc, info), 4) = 4
        /\ \E env \in Envs : WrittenAddress(c.inst, env) = 9 * 4 + 5 + 2

-----------------------------------------------------------------------------
(* C9 *)

\* the components of the offset operand of instruction i as the pass left it
WrittenOffset(i) == Eval(Arena, Arena[i].args[4], [r \in 0..1 |-> 0])

\* C9: for x, y, z in [-32, 31] packed as six-bit fields, each component the
\* image patcher writes into the offset operand is the value that was packed.
C9_OffsetRoundTrip ==
    \A c \in OkCalls("image") :
        InputInst(c.inst).flags.has_offset =>
            \A x \in OffsetRange : \A y \in OffsetRange : \A z \in {-32, -1, 0, 31} :
                InputInst(c.inst).args[4] = Imm(PackOffset(x, y, z)) =>
                    \A n \in 1..Len(WrittenOffset(c.inst)) :
                        WrittenOffset(c.inst)[n] = <<x, y, z>>[n]

-----------------------------------------------------------------------------
(* C10 *)

\* C10: two image accesses get the same image index if and only if they agree
\* on sgpr_base, dword_offset, type and is_storage, is_storage being whether
\* the instruction is a storage instruction; one location accessed both ways
\* gets two entries.
C10_ImageIdentity ==
    /\ \A a \in OkCalls("image") :
        a.desc.is_storage = IsImageStorageInstruction(InputInst(a.inst))
    /\ \A a \in OkCalls("image") : \A b \in OkCalls("image") :
        (a.index = b.index) <=> (ImageIdentity(a.desc) = ImageIdentity(b.desc))
    /\ \A a \in OkCalls("image") : \A b \in OkCalls("image") :
        ( /\ a.desc.sgpr_base = b.desc.sgpr_base
          /\ a.desc.dword_offset = b.desc.dword_offset
          /\ IsImageStorageInstruction(InputInst(a.inst))
          /\ ~IsImageStorageInstruction(InputInst(b.inst)) )
            => /\ a.index # b.index
               /\ info.images[a.index + 1].is_storage
               /\ ~info.images[b.index + 1].is_storage

\* one image location was read as storage and sampled, and sampled twice
C10_Witness ==
    /\ status = "done"
    /\ \E a \in OkCalls("image") : \E b \in OkCalls("image") : \E c \in OkCalls("image") :
        /\ a.desc.sgpr_base = b.desc.sgpr_base
        /\ a.desc.dword_offset = b.desc.dword_offset
        /\ a.desc.type = b.desc.type
        /\ a.desc.is_storage /\ ~b.desc.is_storage
        /\ a.index # b.index
        /\ c.inst # b.inst /\ c.desc = b.desc /\ c.index = b.index

-----------------------------------------------------------------------------
(* C11 *)

\* C11: two sampler registrations return the same index if and only if they
\* agree on sgpr_base and dword_offset; associated_image and disable_aniso
\* play no part.
C11_SamplerIdentity ==
    \A a \in OkCalls("sampler") : \A b \in OkCalls("sampler") :
        (a.index = b.index) <=> (SamplerIdentity(a.desc) = SamplerIdentity(b.desc))

\* two candidates of one location with different image and anisotropy flag
\* share an index; a third that differs in dword_offset alone has another
C11_Witness ==
    \E a \in OkCalls("sampler") : \E b \in OkCalls("sampler") : \E c \in OkCalls("sampler") :
        /\ SamplerIdentity(a.desc) = SamplerIdentity(b.desc)
        /\ a.desc.associated_image # b.desc.associated_image
        /\ a.desc.disable_aniso # b.desc.disable_aniso
        /\ a.index = b.index
        /\ c.desc.sgpr_base = a.desc.sgpr_base
        /\ c.desc.dword_offset # a.desc.dword_offset
        /\ c.desc.associated_image = a.desc.associated_image
        /\ c.desc.disable_aniso = a.desc.disable_aniso
        /\ c.index # a.index

-----------------------------------------------------------------------------
(* C12 *)

\* the program of one buffer store through the V# at dword 4 behind s[12:13]
C12_Scenario ==
    /\ Len(input) = 1
    /\ IsBufferStore(input[1])
    /\ input[1].args[1] = Ref(Node.hTable)

\* C12: operand 0 of a patched buffer instruction is the immediate index of
\* its descriptor in Info.buffers; the program of one buffer store at
\* (sgpr_base 12, dword_offset 4, stride 16, 256 records) ends with exactly one
\* BufferResource, at index 0, with is_storage set, and the handle operand 0.
C12_HandleIsBinding ==
    /\ \A c \in OkCalls("buffer") :
        /\ Arena[c.inst].args[1] = Imm(c.index)
        /\ BufferIdentity(info.buffers[c.index + 1]) = BufferIdentity(c.desc)
    /\ (status = "done" /\ C12_Scenario) =>
        /\ Len(info.buffers) = 1
        /\ info.buffers[1].sgpr_base = 12
        /\ info.buffers[1].dword_offset = 4
        /\ info.buffers[1].stride = 16
        /\ info.buffers[1].num_records = 256
        /\ info.buffers[1].is_storage
        /\ insts[1].args[1] = Imm(0)
        /\ info.images = <<>> /\ info.samplers = <<>>

\* the pass has run over the program of the one store
C12_Witness ==
    /\ status = "done"
    /\ C12_Scenario
    /\ OkCalls("buffer") # {}

-----------------------------------------------------------------------------
(* C13 *)

\* the registration made for the instruction at position k of the program
CallsOf(k) == {c \in calls : c.inst = Len(OperandGraph) + k}

\* C13: the descriptor registered for an instruction of the inline constant
\* buffer idiom has the address half pgm_base + imm0 + imm1 and the control
\* half imm2 | imm3 << 32 (imm2 the low word, imm3 the high word); descriptor
\* and binding are the same under every user data table.
C13_InlineDescriptor ==
    \A i \in InlineImmediates :
        (input = InlineProgram(i[1], i[2], i[3], i[4]) /\ status = "done") =>
            /\ Cardinality(CallsOf(4)) = 1
            /\ \A c \in CallsOf(4) :
                /\ c.kind = "buffer" /\ c.fail = "none"
                /\ c.index = 0
                /\ c.desc.sgpr_base = U32Max /\ c.desc.dword_offset = 0
                /\ c.desc.inline_cbuf.base_address = info.pgm_base + i[1] + i[2]
                /\ c.desc.inline_cbuf.num_records = i[3]
                /\ c.desc.inline_cbuf.word3 = i[4]
                /\ c.desc.num_records = i[3]
                /\ info.buffers = <<c.desc>>
                /\ insts[4].args[1] = Imm(0)

\* program_base 0x1000, immediates 0x100, 0x20, 0xAAAA, 0xBBBB, under the
\* second user data table: address 0x1120, control words 0xAAAA and 0xBBBB
C13_Witness ==
    /\ status = "done"
    /\ input = InlineProgram(256, 32, 43690, 48059)
    /\ info.pgm_base = 4096
    /\ info.user_data = OtherUserData
    /\ Len(info.buffers) = 1
    /\ info.buffers[1].inline_cbuf.base_address = 4384
    /\ info.buffers[1].inline_cbuf.num_records = 43690
    /\ info.buffers[1].inline_cbuf.word3 = 48059

-----------------------------------------------------------------------------
(* C14 *)

\* arena indices of the instructions the program had when the pass began
InputIds == (Len(OperandGraph) + 1)..(Len(OperandGraph) + Len(input))

\* the patcher the opcode of an instruction calls for
PatcherFor(inst) ==
    IF IsBufferInstruction(inst) THEN "buffer"
    ELSE IF IsImageInstruction(inst) THEN "image"
    ELSE "none"

\* C14: the pass dispatches every instruction of the input exactly once, in
\* program order through all blocks, a buffer or image instruction to its
\* patcher and any other to none; instructions a patcher inserted are never
\* dispatched, and every registry call was made for a dispatched resource
\* instruction.
C14_ExactlyOnce ==
    /\ \A k \in 1..Len(visited) :
        /\ visited[k].inst \in InputIds
        /\ visited[k].patcher = PatcherFor(InputInst(visited[k].inst))
    /\ \A k \in 1..Len(visited) : \A l \in 1..Len(visited) :
        k < l => visited[k].inst < visited[l].inst
    /\ status = "done" => \A i \in InputIds : \E k \in 1..Len(visited) : visited[k].inst = i
    /\ \A c \in calls : \E k \in 1..Len(visited) :
        /\ visited[k].inst = c.inst
        /\ visited[k].patcher # "none"
        /\ c.kind = "buffer" <=> visited[k].patcher = "buffer"

\* a program of a buffer, an image and another instruction in two blocks has
\* been walked, and the patchers inserted instructions into the blocks
C14_Witness ==
    /\ status = "done"
    /\ Len(visited) = 3
    /\ {visited[k].patcher : k \in 1..3} = {"buffer", "image", "none"}
    /\ Len(insts) > Len(input)
    /\ Len(blocks[1]) > 1 /\ Len(blocks[3]) > 2

-----------------------------------------------------------------------------
(* Vocabulary of the properties on the sharp resolver *)

\* the arena as the pass found it
InputArena == OperandGraph \o input

\* the instruction PatchBufferInstruction hands to TrackSharp for buffer
\* instruction i: the producer of the first word of its handle
BufferProducer(i) ==
    InputArena[InputArena[i].args[1].v].args[1].v

\* the instruction reached from inst by following first operands through at
\* most steps Phi nodes
RECURSIVE FollowFirst(_, _, _)
FollowFirst(a, inst, steps) ==
    IF steps = 0 \/ a[inst].op # "Phi" \/ a[inst].args[1].k # "inst" THEN inst
    ELSE FollowFirst(a, a[inst].args[1].v, steps - 1)

\* where the Phi chain from inst ends: a Phi still, when the chain is cyclic
EndOfChain(a, inst) == FollowFirst(a, inst, Len(a))

\* the Phi nodes on the chain from inst
PhisOnChain(a, inst) ==
    {q \in {FollowFirst(a, inst, steps) : steps \in 0..Len(a)} : a[q].op = "Phi"}

ReadsUserData(a, val) ==
    val.k = "inst" /\ a[EndOfChain(a, val.v)].op = "GetUserData"

\* the first accepted shape: a direct user data read behind the Phi chain
DirectShape(a, producer) == a[EndOfChain(a, producer)].op = "GetUserData"

\* the second accepted shape: a constant read behind the Phi chain whose
\* address operand is a composite of two halves that each resolve to a direct
\* user data read
ConstReadShape(a, producer) ==
    LET read == a[EndOfChain(a, producer)] IN
    /\ read.op = "ReadConst"
    /\ read.args[1].k = "inst"
    /\ LET address == a[read.args[1].v] IN
        /\ address.op = "CompositeConstructU32x2"
        /\ Len(address.args) = 2
        /\ ReadsUserData(a, address.args[1])
        /\ ReadsUserData(a, address.args[2])

\* the buffer instructions dispatched so far
DispatchedBuffers == {visited[k].inst : k \in {k \in 1..Len(visited) : visited[k].patcher = "buffer"}}

DispatchedImages == {visited[k].inst : k \in {k \in 1..Len(visited) : visited[k].patcher = "image"}}

CallsFor(i) == {c \in calls : c.inst = i}

-----------------------------------------------------------------------------
(* C15 *)

\* C15: TrackSharp ends on every input, cyclic Phi structures included: the
\* patching of a buffer instruction, which loops nowhere else, never hangs.
C15_ResolverTerminates ==
    DispatchedBuffers # {} => status # "hang"

-----------------------------------------------------------------------------
(* C16 *)

NoRepeats(seq) ==
    \A k \in 1..Len(seq) : \A l \in 1..Len(seq) : seq[k] = seq[l] => k = l

\* C16: the producer search of an image instruction ends on every graph and
\* examines no instruction twice.
C16_SearchVisitsOnce ==
    \A i \in DispatchedImages :
        /\ SearchProducer(InputArena, i).fail # "hang"
        /\ NoRepeats(ExaminedBy(InputArena, <<i>>))

-----------------------------------------------------------------------------
(* C17 *)

\* C17: for a producer of neither accepted shape TrackSharp fails its
\* assertion and returns no location (stated for the inputs on which it ends).
C17_FailFast ==
    \A i \in DispatchedBuffers :
        LET producer == BufferProducer(i) IN
        ( /\ ~DirectShape(InputArena, producer)
          /\ ~ConstReadShape(InputArena, producer)
          /\ status # "hang" )
            => status = "assert" /\ CallsFor(i) = {}

-----------------------------------------------------------------------------
(* C18 *)

\* the register the first address half of the constant read behind producer
\* reads, and the read's offset operand
FirstHalfRegister(a, producer) ==
    LET address == a[a[EndOfChain(a, producer)].args[1].v]
    IN a[EndOfChain(a, address.args[1].v)].args[1].v

OffsetOperand(a, producer) == a[EndOfChain(a, producer)].args[2].v

\* C18 as stated: for a constant read whose address halves resolve to user
\* data reads, the location is the register of the first half and the read's
\* offset operand divided by 4.
C18_OffsetDividedByFour ==
    \A i \in DispatchedBuffers :
        LET producer == BufferProducer(i) IN
        ConstReadShape(InputArena, producer) =>
            /\ CallsFor(i) # {}
            /\ \A c \in CallsFor(i) :
                /\ c.desc.sgpr_base = FirstHalfRegister(InputArena, producer)
                /\ c.desc.dword_offset = OffsetOperand(InputArena, producer) \div 4

\* C18 as amended: for a constant read whose address halves resolve to user
\* data reads, the location is the register of the first half and the read's
\* offset operand, unchanged.
C18_ConstReadLocation ==
    \A i \in DispatchedBuffers :
        LET producer == BufferProducer(i) IN
        ConstReadShape(InputArena, producer) =>
            /\ CallsFor(i) # {}
            /\ \A c \in CallsFor(i) :
                /\ c.fail = "none"
                /\ c.desc.sgpr_base = FirstHalfRegister(InputArena, producer)
                /\ c.desc.dword_offset = OffsetOperand(InputArena, producer)

\* a constant read at offset 8, reached through a Phi, whose first address
\* half is itself reached through a Phi, has been resolved to (4, 8)
C18_Witness ==
    \E i \in DispatchedBuffers :
        LET producer == BufferProducer(i) IN
        /\ ConstReadShape(InputArena, producer)
        /\ InputArena[producer].op = "Phi"
        /\ InputArena[EndOfChain(InputArena, producer)].args[1].v = 3
        /\ \E c \in CallsFor(i) : c.desc.sgpr_base = 0 /\ c.desc.dword_offset = 8

-----------------------------------------------------------------------------
(* C19 *)

\* C19: for a direct user data read behind a Phi chain the location is the
\* sentinel base and the register read, and it is the same whichever operand
\* of a Phi on the chain is followed.
C19_DirectLocation ==
    \A i \in DispatchedBuffers :
        LET producer == BufferProducer(i)
            register == InputArena[EndOfChain(InputArena, producer)].args[1].v
        IN DirectShape(InputArena, producer) =>
            /\ CallsFor(i) # {}
            /\ \A c \in CallsFor(i) :
                /\ c.desc.sgpr_base = ScalarRegMax
                /\ c.desc.dword_offset = register
            /\ \A q \in PhisOnChain(InputArena, producer) :
                \A n \in 1..Len(InputArena[q].args) :
                    LET operand == InputArena[q].args[n] IN
                    /\ ReadsUserData(InputArena, operand)
                    /\ InputArena[EndOfChain(InputArena, operand.v)].args[1].v = register

-----------------------------------------------------------------------------
(* C20 *)

\* the declared byte size of the descriptor a registration was made from
DeclaredBytes(desc) == desc.stride * desc.num_records

\* C20: a buffer descriptor, inline or read from user data, is registered
\* with is_storage set exactly when the instruction is a buffer store or the
\* descriptor declares more than 65536 bytes.
C20_StorageBoundary ==
    \A c \in calls :
        c.kind = "buffer" =>
            ( c.desc.is_storage <=>
                ( IsBufferStore(InputInst(c.inst)) \/ DeclaredBytes(c.desc) > 65536 ) )

\* a load from a descriptor of exactly 65536 bytes has been registered as
\* not storage, from a table or inline
C20_Witness ==
    /\ status = "done"
    /\ \E op \in {"LoadBufferF32", "ReadConstBuffer"} :
        \/ input = TableAccess(op, 4)
        \/ input = InlineAccess(op, 4096) /\ info.pgm_base_hi # 0
    /\ \E c \in calls :
        /\ c.kind = "buffer" /\ c.fail = "none"
        /\ DeclaredBytes(c.desc) = 65536
        /\ ~c.desc.is_storage
        /\ info.buffers = <<c.desc>>

-----------------------------------------------------------------------------
(* C21 *)

\* the successful buffer registrations that returned the binding of position p
AccessesOf(history, p) ==
    {c \in history : c.kind = "buffer" /\ c.fail = "none" /\ c.index = p - 1}

C21_Step ==
    /\ Len(info'.buffers) >= Len(info.buffers)
    /\ Len(info'.images) >= Len(info.images)
    /\ Len(info'.samplers) >= Len(info.samplers)
    /\ \A p \in 1..Len(info.buffers) :
         LET old == info.buffers[p]
             new == info'.buffers[p]
         IN /\ new.sgpr_base = old.sgpr_base
            /\ new.dword_offset = old.dword_offset
            /\ new.stride = old.stride
            /\ new.num_records = old.num_records
            /\ new.inline_cbuf = old.inline_cbuf
            /\ old.is_storage => new.is_storage
            /\ old.used_types \subseteq new.used_types
    /\ \A p \in 1..Len(info'.buffers) :
         info'.buffers[p].used_types =
            UNION {BufferDataType(InputInst(c.inst)) : c \in AccessesOf(calls', p)}
    /\ \A p \in 1..Len(info.images) : info'.images[p] = info.images[p]
    /\ \A p \in 1..Len(info.samplers) : info'.samplers[p] = info.samplers[p]

\* C21: an entry of a resource list changes only by flag widening: a buffer
\* entry keeps sgpr_base, dword_offset, stride, num_records and inline_cbuf,
\* is_storage and used_types only gain, and used_types is the union of the
\* element types of the accesses to the binding; image and sampler entries
\* never change.
C21_EntriesOnlyWiden == [][C21_Step]_vars

\* a binding accessed as F32 and then as U32 holds both types, beside an image
\* and a sampler entry
C21_Witness ==
    /\ status = "done"
    /\ Len(info.images) > 0 /\ Len(info.samplers) > 0
    /\ \E p \in 1..Len(info.buffers) :
        /\ info.buffers[p].used_types = {"F32", "U32"}
        /\ \E a \in AccessesOf(calls, p) : \E b \in AccessesOf(calls, p) :
            /\ a.inst < b.inst
            /\ a.desc.used_types = {"F32"} /\ b.desc.used_types = {"U32"}

-----------------------------------------------------------------------------
(* Vocabulary of the properties on the image patcher *)

\* the image instructions whose patching is over and did not fail
PatchedImages ==
    {i \in DispatchedImages :
        status \in {"running", "done"} \/ visited[Len(visited)].inst # i}

\* the instruction the handle operand of image instruction i refers to; in
\* the image families it is the producer the search finds
HandleOf(i) == InputArena[i].args[1].v

IsCombined(i) == InputArena[HandleOf(i)].op = "CompositeConstructU32x2"

ImageCallsFor(i) == {c \in CallsFor(i) : c.kind = "image"}

SamplerCallsFor(i) == {c \in CallsFor(i) : c.kind = "sampler"}

-----------------------------------------------------------------------------
(* C22 *)

\* C22: a patched image instruction has as operand 0 the immediate
\* imageBinding | samplerBinding << 16 when its producer is a combined
\* construction, and the image binding alone, with no sampler registered for
\* it, when the producer is a constant read or a user data read.
C22_PackedHandle ==
    \A i \in PatchedImages :
        /\ IsProducerOpcode(InputArena[HandleOf(i)].op)
        /\ Cardinality(ImageCallsFor(i)) = 1
        /\ \A ci \in ImageCallsFor(i) :
            IF IsCombined(i)
            THEN /\ Cardinality(SamplerCallsFor(i)) = 1
                 /\ \A cs \in SamplerCallsFor(i) :
                        Arena[i].args[1] = Imm(ci.index + cs.index * 65536)
            ELSE /\ SamplerCallsFor(i) = {}
                 /\ Arena[i].args[1] = Imm(ci.index)

\* two combined accesses to different images with different samplers: the
\* second has image binding 1 and sampler binding 1 packed as 0x00010001
C22_Witness ==
    LET n == Len(OperandGraph) IN
    /\ status = "done"
    /\ Len(input) = 3
    /\ n + 2 \in PatchedImages /\ n + 3 \in PatchedImages
    /\ IsCombined(n + 2) /\ IsCombined(n + 3)
    /\ Arena[n + 2].args[1] = Imm(0)
    /\ Arena[n + 3].args[1] = Imm(65537)
    /\ Len(info.images) = 2 /\ Len(info.samplers) = 2

-----------------------------------------------------------------------------
(* C23 *)

\* the place in insts of the instruction the pass is at
Current == blocks[cursor.block][cursor.pos] - Len(OperandGraph)

C23_Step ==
    (status = "running" /\ Visiting.op \in {"ReadConstBuffer", "ReadConstBufferU32"}) =>
        /\ Len(insts') = Len(insts)
        /\ blocks' = blocks
        /\ \A k \in 1..Len(insts) : k # Current => insts'[k] = insts[k]
        /\ insts'[Current].op = insts[Current].op
        /\ Len(insts'[Current].args) = Len(insts[Current].args)
        /\ \A n \in 2..Len(insts[Current].args) :
             insts'[Current].args[n] = insts[Current].args[n]
        /\ status' \in {"running", "done"} =>
             \E c \in calls' \ calls :
                /\ c.kind = "buffer" /\ c.fail = "none"
                /\ insts'[Current].args[1] = Imm(c.index)

\* C23: for ReadConstBuffer and ReadConstBufferU32 the patcher replaces operand
\* 0 with the binding index and nothing else: operand 1 stays, no instruction
\* is inserted, under every combination of index_enable and offset_enable.
C23_WholeReadsKeepAddress == [][C23_Step]_vars

\* a ReadConstBufferU32 with index_enable and offset_enable was patched: its
\* handle is the binding, its address operand still the register pair
C23_Witness ==
    /\ status = "done"
    /\ Len(input) = 1 /\ Len(insts) = 1
    /\ input[1].op = "ReadConstBufferU32"
    /\ input[1].flags.index_enable /\ input[1].flags.offset_enable
    /\ input[1].flags.inst_offset = 20
    /\ insts[1].args = <<Imm(0), Ref(Node.vAddress)>>
    /\ Len(info.buffers) = 1

-----------------------------------------------------------------------------
(* C24 *)

\* the descriptor value a buffer registration was made from
DescriptorOf(c) ==
    IF c.desc.sgpr_base = U32Max THEN c.desc.inline_cbuf
    ELSE ReadUd(info, c.desc.sgpr_base, c.desc.dword_offset).buffer

\* C24: a buffer instruction whose descriptor, inline or read from user data,
\* has swizzle_enable or add_tid_enable set ends the pass in its assertion,
\* with the address operand of the instruction as it was.
C24_RejectsAddressingModes ==
    \A i \in DispatchedBuffers :
        \A c \in CallsFor(i) :
            ( /\ c.fail = "none"
              /\ DescriptorOf(c).swizzle_enable \/ DescriptorOf(c).add_tid_enable )
            => /\ status = "assert"
               /\ visited[Len(visited)].inst = i
               /\ Arena[i].args[2] = InputArena[i].args[2]
               /\ Len(insts) = Len(input)

\* a load with index_enable through an inline descriptor with add_tid_enable
\* set ended in the assertion, its address operand untouched
C24_Witness ==
    /\ status = "assert"
    /\ input = InlineModeAccess("LoadBufferF32", 2 ^ 23)
    /\ info.pgm_base_hi = 0
    /\ insts[4].args[2] = Ref(Node.vIndex)
    /\ \E c \in calls :
        /\ c.desc.sgpr_base = U32Max
        /\ c.desc.inline_cbuf.add_tid_enable /\ ~c.desc.inline_cbuf.swizzle_enable

-----------------------------------------------------------------------------
(* C25 *)

\* the operands of the coordinate body every image instruction is given
Body == InputArena[Node.vBody].args

\* val is an instruction the pass emitted
IsEmitted(val) == val.k = "inst" /\ val.v \in (Len(InputArena) + 1)..Len(Arena)

\* val is a composite the pass emitted of exactly the components comps
IsCompositeOf(val, comps) ==
    /\ IsEmitted(val)
    /\ Arena[val.v].op =
          (IF Len(comps) = 2 THEN "CompositeConstructF32x2" ELSE "CompositeConstructF32x3")
    /\ Arena[val.v].args = comps

\* val is x - 1.5 as the pass emitted it
IsLessOneAndHalf(val, x) ==
    /\ IsEmitted(val)
    /\ Arena[val.v].op = "FPSub32"
    /\ Arena[val.v].args = <<x, ImmF(3)>>

\* the resources of instruction i were registered and its handle operand
\* replaced by the packed bindings
HandleWritten(i) == Arena[i].args[1].k = "imm"

\* the coordinate operand the claim gives for an image of the type
CoordsAsClaimed(coords, type) ==
    CASE type = "Color1D" -> coords = Body[1]
      [] type \in {"Color1DArray", "Color2D"} ->
            IsCompositeOf(coords, <<Body[1], Body[2]>>)
      [] type \in {"Color2DArray", "Color2DMsaa", "Color3D"} ->
            IsCompositeOf(coords, <<Body[1], Body[2], Body[3]>>)
      [] type = "Cube" ->
            /\ IsEmitted(coords)
            /\ Arena[coords.v].op = "CompositeConstructF32x3"
            /\ Len(Arena[coords.v].args) = 3
            /\ IsLessOneAndHalf(Arena[coords.v].args[1], Body[1])
            /\ IsLessOneAndHalf(Arena[coords.v].args[2], Body[2])
            /\ Arena[coords.v].args[3] = Body[3]
      [] OTHER -> FALSE

\* C25: but for ImageQueryDimensions, whose coordinate operand stays, operand 1
\* of an image instruction becomes body[0] for 1D, (body[0], body[1]) for
\* 1D-array and 2D, (body[0], body[1], body[2]) for 2D-array, 2D-multisample
\* and 3D, (body[0] - 1.5, body[1] - 1.5, body[2]) for cube; any other type
\* fails.
C25_CoordsByDimension ==
    \A i \in DispatchedImages :
        \A c \in ImageCallsFor(i) :
            HandleWritten(i) =>
                IF InputArena[i].op = "ImageQueryDimensions"
                THEN /\ Arena[i].args[2] = InputArena[i].args[2]
                     /\ status \in {"running", "done"}
                ELSE IF c.desc.type \in {"Color1D", "Color1DArray", "Color2D", "Color2DArray",
                                         "Color2DMsaa", "Color3D", "Cube"}
                THEN CoordsAsClaimed(Arena[i].args[2], c.desc.type)
                ELSE /\ status = "assert"
                     /\ Arena[i].args[2] = InputArena[i].args[2]

\* a sample of a cube image was patched to (s - 1.5, t - 1.5, z)
C25_Witness ==
    /\ status = "done"
    /\ Len(input) = 1
    /\ input[1].op = "ImageSampleImplicitLod"
    /\ \E c \in calls : c.kind = "image" /\ c.desc.type = "Cube"
    /\ insts[1].args[2] = Ref(Len(InputArena) + 3)
    /\ insts[2] = Inst("FPSub32", <<Ref(25), ImmF(3)>>, NoFlags)
    /\ insts[3] = Inst("FPSub32", <<Ref(26), ImmF(3)>>, NoFlags)
    /\ insts[4] = Inst("CompositeConstructF32x3",
                       <<Ref(Len(InputArena) + 1), Ref(Len(InputArena) + 2), Ref(27)>>, NoFlags)

-----------------------------------------------------------------------------
(* C26 *)

\* the sampler sub-handle of image instruction i, whose handle is combined
SamplerHandleOf(i) == InputArena[HandleOf(i)].args[2].v

\* the instruction a value refers to, 0 for an immediate
Producer(val) == IF val.k = "inst" THEN val.v ELSE 0

\* instruction x is the select of the anisotropy idiom, part by part
IsAnisoIdiom(x) ==
    LET cond == Producer(InputArena[x].args[1])
        field == Producer(InputArena[cond].args[1])
        range == Producer(InputArena[field].args[2])
        masked == Producer(InputArena[x].args[2])
        plain == Producer(InputArena[x].args[3])
    IN /\ InputArena[x].op = "SelectU32"
       /\ cond # 0 /\ InputArena[cond].op = "IEqual"
       /\ InputArena[cond].args[2] = Imm(0)
       /\ field # 0 /\ InputArena[field].op = "BitFieldUExtract"
       /\ range # 0 /\ InputArena[range].args[1] = Imm(AnisoLodBits)
       /\ masked # 0 /\ InputArena[masked].op = "BitwiseAnd32"
       /\ InputArena[masked].args[2] = Imm(AnisoMask)
       /\ plain # 0 /\ InputArena[plain].op \in {"GetUserData", "ReadConst"}

\* sampler registration c is of the location instruction x resolves to
ResolvedFrom(c, x) ==
    /\ TrackSharp(InputArena, x).fail = "none"
    /\ c.desc.sgpr_base = TrackSharp(InputArena, x).sgpr_base
    /\ c.desc.dword_offset = TrackSharp(InputArena, x).dword_offset

\* C26: a sampler sub-handle that is the anisotropy idiom (SelectU32 on IEqual
\* with 0 of a BitFieldUExtract over 0x0008000c, operand 1 a BitwiseAnd32 with
\* 0xfffff1ff, operand 2 a GetUserData or ReadConst) is resolved from operand 2
\* and registered with disable_aniso set; any other sub-handle is resolved from
\* itself and registered with disable_aniso clear.
C26_AnisoIdiom ==
    \A i \in {j \in DispatchedImages : IsCombined(j)} :
        LET x == SamplerHandleOf(i) IN
        /\ \A c \in SamplerCallsFor(i) :
              IF IsAnisoIdiom(x)
              THEN c.desc.disable_aniso /\ ResolvedFrom(c, Producer(InputArena[x].args[3]))
              ELSE ~c.desc.disable_aniso /\ ResolvedFrom(c, x)
        /\ HandleWritten(i) => SamplerCallsFor(i) # {}
        /\ IsAnisoIdiom(x) /\ i \in PatchedImages => HandleWritten(i)

\* the idiom over the S# word read from the table behind s[12:13] was found:
\* the sampler is registered at that word with disable_aniso set
C26_Witness ==
    /\ status = "done"
    /\ Len(input) = 7
    /\ input[5] = Inst("SelectU32", <<Ref(Len(OperandGraph) + 3), Ref(Len(OperandGraph) + 4),
                                      Ref(35)>>, NoFlags)
    /\ IsAnisoIdiom(Len(OperandGraph) + 5)
    /\ \E c \in calls :
          /\ c.kind = "sampler"
          /\ c.desc.disable_aniso
          /\ c.desc.sgpr_base = 12
          /\ c.fail = "none"

-----------------------------------------------------------------------------
(* C27 *)

\* the body operand behind the coordinates of an image of the type
TrailingArg(type) ==
    CASE type = "Color1D" -> Body[2]
      [] type \in {"Color1DArray", "Color2D"} -> Body[3]
      [] OTHER -> Body[4]

\* operand slot k of instruction i, counted from 0 as the code counts
SlotOf(a, i, k) == a[i].args[k + 1]

\* the slots the flags of instruction i make the pass write
ClampSlot(i) == IF InputArena[i].flags.is_depth THEN 5 ELSE 4
OffsetSlot(i) == IF InputArena[i].flags.is_depth THEN 4 ELSE 3
ExplicitLodSlot(i) == IF InputArena[i].op = "ImageSampleExplicitLod" THEN 2 ELSE 3
TakesExplicitLod(i) ==
    InputArena[i].op \in {"ImageSampleExplicitLod", "ImageFetch", "ImageSampleDrefExplicitLod"}

\* C27: the body operand behind the coordinates goes, with has_lod_clamp, to
\* slot 5 of a depth-comparing instruction and slot 4 otherwise; with
\* explicit_lod, to slot 2 of ImageSampleExplicitLod and slot 3 of ImageFetch
\* and ImageSampleDrefExplicitLod, any other opcode failing; the slots no flag
\* names keep their operands.
C27_TrailingArgument ==
    \A i \in DispatchedImages :
        \A c \in ImageCallsFor(i) :
            (/\ HandleWritten(i)
             /\ InputArena[i].op # "ImageQueryDimensions"
             /\ c.desc.type \in KnownImageTypes) =>
                LET f == InputArena[i].flags
                    arg == TrailingArg(c.desc.type)
                    written == (IF f.has_lod_clamp THEN {ClampSlot(i)} ELSE {})
                               \cup (IF f.explicit_lod /\ TakesExplicitLod(i)
                                     THEN {ExplicitLodSlot(i)} ELSE {})
                    offset == IF f.has_offset THEN {OffsetSlot(i)} ELSE {}
                IN /\ \A k \in written : SlotOf(Arena, i, k) = arg
                   /\ \A k \in (2..5) \ (written \cup offset) :
                         k + 1 <= Len(InputArena[i].args) =>
                             SlotOf(Arena, i, k) = SlotOf(InputArena, i, k)
                   /\ f.explicit_lod /\ ~TakesExplicitLod(i) => status = "assert"
                   /\ (f.explicit_lod => TakesExplicitLod(i)) => status # "assert"

\* an explicit-lod sample of a 2D image with a lod clamp and a reference value:
\* body[2] went to slot 2 and to slot 5
C27_Witness ==
    /\ status = "done"
    /\ Len(input) = 1
    /\ input[1].op = "ImageSampleExplicitLod"
    /\ input[1].flags.is_depth /\ input[1].flags.has_lod_clamp
    /\ input[1].flags.explicit_lod /\ ~input[1].flags.has_offset
    /\ \E c \in calls : c.kind = "image" /\ c.desc.type = "Color2D"
    /\ SlotOf(insts, 1, 2) = Ref(27)
    /\ SlotOf(insts, 1, 5) = Ref(27)
    /\ SlotOf(insts, 1, 3) = Imm(101)
    /\ SlotOf(insts, 1, 4) = Imm(102)

-----------------------------------------------------------------------------
(* C28 *)

\* the registrations of buffers the pass made so far
BufferCalls == {c \in calls : c.kind = "buffer"}

\* C28: in a run that starts with no buffer entries, over user data that stays
\* as it is, the stride/num_records assertion of Add(BufferResource) never
\* fails: registrations of one identity (sgpr_base, dword_offset, inline_cbuf)
\* carry the stride and num_records of one descriptor value.
C28_NoLayoutConflict ==
    /\ \A c \in BufferCalls : c.fail # "assert"
    /\ \A c1, c2 \in BufferCalls :
          BufferPred(c1.desc, c2.desc) =>
              /\ SameLayout(c1.desc, c2.desc)
              /\ DescriptorOf(c1) = DescriptorOf(c2)
    /\ \A c \in BufferCalls :
          /\ c.desc.stride = GetStride(DescriptorOf(c))
          /\ c.desc.num_records = DescriptorOf(c).num_records

\* two instructions reached one entry, in user data and inline, and the
\* assertion passed both times
C28_Witness ==
    \E c1, c2 \in BufferCalls :
        /\ c1.inst # c2.inst
        /\ BufferPred(c1.desc, c2.desc)
        /\ c1.fail = "none" /\ c2.fail = "none"
        /\ c1.index = c2.index
        /\ c1.desc.stride > 0 /\ c1.desc.num_records > 0
        /\ \E other \in BufferCalls :
              /\ other.fail = "none"
              /\ other.index # c1.index
              /\ ~SameLayout(other.desc, c1.desc)

-----------------------------------------------------------------------------
(* C29 *)

\* the sampler registrations the pass made so far that went through
SamplerCalls == {c \in calls : c.kind = "sampler" /\ c.fail = "none"}

\* the registrations of the location of c, and the earliest of them (the pass
\* walks the instructions in ascending order)
SameSampler(c) == {e \in SamplerCalls : SamplerPred(e.desc, c.desc)}
FirstOf(c) == CHOOSE e \in SameSampler(c) : \A o \in SameSampler(c) : e.inst <= o.inst

\* C29: a sampler accessed again at a registered (sgpr_base, dword_offset)
\* gets the existing index, and the entry keeps the associated_image and
\* disable_aniso of the access that registered it first.
C29_SamplerKeepsFirst ==
    \A c \in SamplerCalls :
        /\ c.index = FirstOf(c).index
        /\ c.index + 1 \in 1..Len(info.samplers)
        /\ info.samplers[c.index + 1] = FirstOf(c).desc

\* a second sample reached the sampler of the first with another image and
\* through the anisotropy idiom: the entry still names the first image, not the
\* image binding in the low 16 bits of the second handle, and disable_aniso is
\* still clear
C29_Witness ==
    /\ status = "done"
    /\ Len(input) = 3
    /\ \E c1, c2 \in SamplerCalls :
          /\ c1.inst < c2.inst
          /\ c1.index = c2.index
          /\ c1.desc.associated_image # c2.desc.associated_image
          /\ ~c1.desc.disable_aniso /\ c2.desc.disable_aniso
          /\ info.samplers[c2.index + 1].associated_image = c1.desc.associated_image
          /\ ~info.samplers[c2.index + 1].disable_aniso
          /\ Arena[c2.inst].args[1].k = "imm"
          /\ Arena[c2.inst].args[1].v \div 65536 = c2.index
          /\ Arena[c2.inst].args[1].v % 65536 = c2.desc.associated_image
          /\ Arena[c2.inst].args[1].v % 65536
                # info.samplers[c2.index + 1].associated_image

-----------------------------------------------------------------------------
(* C30 *)

\* the descriptor value the pass had in hand when it made registration c: the
\* one built from the immediates of the inline idiom, or the one at the
\* location the handle of the instruction resolves to
ValueInHand(c) ==
    IF IsInlineCbuf(InputArena, c.inst)
    THEN InlineCbuf(InputArena, c.inst, info)
    ELSE LET handle == TryInstRecursive(InputArena[c.inst].args[1])
             sharp == TrackSharp(InputArena, TryInstRecursive(InputArena[handle].args[1]))
             table == IF sharp.sgpr_base = ScalarRegMax THEN UserDataAddr
                      ELSE <<info.user_data[sharp.sgpr_base],
                             info.user_data[sharp.sgpr_base + 1]>>
         IN info.memory[table][sharp.dword_offset].buffer

\* C30: over unchanged user data, GetVsharp of a buffer entry the pass
\* registered is the descriptor value the pass took the entry's stride and
\* num_records from: the inline descriptor where one is set, else the V# at
\* (sgpr_base, dword_offset), in the user-data table itself for the sentinel
\* base and behind the pointer in user_data[sgpr_base] otherwise.
C30_GetVsharpAgrees ==
    \A c \in {b \in BufferCalls : b.fail = "none"} :
        LET entry == info.buffers[c.index + 1]
            vsharp == GetVsharp(entry, info)
        IN /\ vsharp = ValueInHand(c)
           /\ entry.stride = GetStride(vsharp)
           /\ entry.num_records = vsharp.num_records
           /\ (entry.inline_cbuf # ZeroBuffer) = IsInlineCbuf(InputArena, c.inst)

\* a finished run that registered an inline buffer, a buffer of the user-data
\* table and a buffer behind the pointer in s[0:1]
C30_Witness ==
    /\ status = "done"
    /\ Len(info.buffers) = 3
    /\ \E k \in 1..3 : /\ info.buffers[k].inline_cbuf # ZeroBuffer
                        /\ GetVsharp(info.buffers[k], info) = info.buffers[k].inline_cbuf
    /\ \E k \in 1..3 : /\ info.buffers[k].sgpr_base = ScalarRegMax
                        /\ GetVsharp(info.buffers[k], info) = Memory[UserDataAddr][4].buffer
    /\ \E k \in 1..3 : /\ info.buffers[k].sgpr_base = 0
                        /\ GetVsharp(info.buffers[k], info) = Memory[TablePointer][0].buffer
    /\ \A c \in BufferCalls : c.fail = "none"

====
